---- MODULE Spec2Model ----
(***************************************************************************)
(* Duck Machine DM2022: instruction codec, predicated CPU, and the two     *)
(* assembler phases.                                                       *)
(*                                                                         *)
(* Python integers are unbounded.  A memory word is held as a pair         *)
(* [hi, lo] standing for hi * 2^16 + lo with lo in 0 .. 2^16 - 1, so that  *)
(* words with bit 31 set (and literals beyond 32 bits) are represented     *)
(* exactly.  Register values and memory cells of the CPU are plain         *)
(* integers, bounded by MaxVal.                                            *)
(***************************************************************************)
EXTENDS Integers, Sequences, FiniteSets, TLC

VARIABLES
    \* ---- instruction codec (encode / decode as a pipeline of one instruction)
    cStage,      \* "new" | "encoded" | "decoded"
    cInstr,      \* the Instruction handed to encode
    cWord,       \* encode's result
    cOut         \* decode's result

codecVars == <<cStage, cInstr, cWord, cOut>>

VARIABLES
    \* ---- CPU
    registers,   \* registers[0..15], the value each Register holds
    condition,   \* the condition flag
    halted,      \* the halted flag
    memory,      \* the Memory the CPU is bound to: address -> cell
    mode,        \* "idle" | "running" | "returned" | "raised" | "memfault"
    nSteps,      \* step() calls made so far
    nEvents,     \* CPUStep events published so far
    lastEvent,   \* the last CPUStep event, with what its listeners could see
    lastStep,    \* what the last step() call did (observation only)
    runInfo      \* the current / last run(): from_addr, steps, satisfied HALTs

cpuVars == <<registers, condition, halted, memory, mode, nSteps, nEvents,
             lastEvent, lastStep, runInfo>>

VARIABLES
    \* ---- assembler
    asmSrc,      \* the lines of the assembly source
    phase1,      \* the call of transform (phase 1): its local variables
    phase2       \* the call of assemble (phase 2): its local variables

asmVars == <<asmSrc, phase1, phase2>>

VARIABLES
    \* ---- callers
    call,        \* a direct call of ALU.exec or of a CondFlag operation
    proc,        \* a phase of the assembler run as a process (its main)
    earlier      \* the run of transform made before the current one

callVars == <<call, proc, earlier>>

vars == <<cStage, cInstr, cWord, cOut, registers, condition, halted, memory,
          mode, nSteps, nEvents, lastEvent, lastStep, runInfo, asmSrc, phase1, phase2,
          call, proc, earlier>>

-----------------------------------------------------------------------------
(* Bounds of the model *)

\* largest magnitude of an arithmetic operand or result explored by the CPU
MaxVal == 40

\* number of cells of the Memory
MemSize == 3

\* number of step() calls explored
MaxSteps == 4

\* number of lines of an assembly source (the docstring example has 5)
MaxLines == 3

\* number of lines of a source made of the lines that exercise one phase
MaxEdgeLines == 2

\* number of erroneous lines of one kind in a source (the thresholds are
\* 10 and 15)
MaxBad == 17

-----------------------------------------------------------------------------
(* Wide integers *)

Half == 2 ^ 16

Wide(n) == [hi |-> n \div Half, lo |-> n % Half]

WZero == [hi |-> 0, lo |-> 0]

\* the integer a wide value stands for (only used where it fits)
Narrow(w) == w.hi * Half + w.lo

-----------------------------------------------------------------------------
(* BitField(low, high): a field is the pair <<low, high>> *)

FieldWidth(f) == f[2] - f[1] + 1

\* BitField.extract: shift right by low, mask to width
Extract(f, w) ==
    LET low == f[1]
        high == f[2]
        width == FieldWidth(f)
    IN  IF low >= 16 THEN (w.hi \div (2 ^ (low - 16))) % (2 ^ width)
        ELSE IF high <= 15 THEN (w.lo \div (2 ^ low)) % (2 ^ width)
        ELSE (w.lo \div (2 ^ low)) + (w.hi % (2 ^ (high - 15))) * (2 ^ (16 - low))

\* BitField.sign_extend: the low `width` bits as two's complement
SignExtend(value, width) ==
    IF (value \div (2 ^ (width - 1))) % 2 = 1 THEN value - 2 ^ width ELSE value

\* BitField.extract_signed
ExtractSigned(f, w) == SignExtend(Extract(f, w), FieldWidth(f))

\* BitField.insert: mask value to width, clear the field in word, OR it in
Insert(f, value, w) ==
    LET low == f[1]
        high == f[2]
        width == FieldWidth(f)
        v == value % (2 ^ width)
        old == Extract(f, w)
    IN  IF low >= 16
        THEN [hi |-> w.hi - old * (2 ^ (low - 16)) + v * (2 ^ (low - 16)), lo |-> w.lo]
        ELSE IF high <= 15
        THEN [hi |-> w.hi, lo |-> w.lo - old * (2 ^ low) + v * (2 ^ low)]
        ELSE LET loBits == 16 - low
                 hiBits == high - 15
             IN  [hi |-> w.hi - (w.hi % (2 ^ hiBits)) + (v \div (2 ^ loBits)),
                  lo |-> (w.lo % (2 ^ low)) + (v % (2 ^ loBits)) * (2 ^ low)]

-----------------------------------------------------------------------------
(* instr_format: field positions, OpCode, CondFlag, Instruction *)

reserved == <<31, 31>>
op_field == <<26, 30>>
cond_field == <<22, 25>>
reg_target_field == <<18, 21>>
reg_src1_field == <<14, 17>>
reg_src2_field == <<10, 13>>
offset_field == <<0, 9>>

\* class OpCode(Enum): name -> value
OpCode ==
    [HALT |-> 0, LOAD |-> 1, STORE |-> 2, ADD |-> 3, SUB |-> 5, MUL |-> 6, DIV |-> 7]

OpNames == DOMAIN OpCode

OpValues == {OpCode[n] : n \in OpNames}

\* OpCode(value): the member with that value; a value no member has raises ValueError
OpCodeOf(v) == IF v \in OpValues THEN CHOOSE n \in OpNames : OpCode[n] = v ELSE "ValueError"

\* class CondFlag(Flag): a flag is its 4-bit value
M == 1
Z == 2
P == 4
V == 8
NEVER == 0
ALWAYS == 15

CondFlags == 0 .. 15

Bit(x, i) == (x \div (2 ^ i)) % 2

\* CondFlag.__and__ / __or__ : bitwise on the values
CondAnd(a, b) ==
    Bit(a, 0) * Bit(b, 0) + 2 * Bit(a, 1) * Bit(b, 1)
    + 4 * Bit(a, 2) * Bit(b, 2) + 8 * Bit(a, 3) * Bit(b, 3)

Max2(a, b) == IF a >= b THEN a ELSE b

CondOr(a, b) ==
    Max2(Bit(a, 0), Bit(b, 0)) + 2 * Max2(Bit(a, 1), Bit(b, 1))
    + 4 * Max2(Bit(a, 2), Bit(b, 2)) + 8 * Max2(Bit(a, 3), Bit(b, 3))

\* a __str__ that lists the letters in the opposite order
CondStr_reversed(c) ==
    IF c = M THEN "M"
    ELSE IF c = Z THEN "Z"
    ELSE IF c = P THEN "P"
    ELSE IF c = V THEN "V"
    ELSE IF c = NEVER THEN "NEVER"
    ELSE IF c = ALWAYS THEN "ALWAYS"
    ELSE (IF CondAnd(c, V) = V THEN "V" ELSE "") \o (IF CondAnd(c, P) = P THEN "P" ELSE "")
         \o (IF CondAnd(c, Z) = Z THEN "Z" ELSE "") \o (IF CondAnd(c, M) = M THEN "M" ELSE "")

\* CondFlag.__str__: the exact alias if there is one, else the bit names in
\* the order of the members M, Z, P, V
CondStr(c) ==
    IF c = M THEN "M"
    ELSE IF c = Z THEN "Z"
    ELSE IF c = P THEN "P"
    ELSE IF c = V THEN "V"
    ELSE IF c = NEVER THEN "NEVER"
    ELSE IF c = ALWAYS THEN "ALWAYS"
    ELSE (IF CondAnd(c, M) = M THEN "M" ELSE "") \o (IF CondAnd(c, Z) = Z THEN "Z" ELSE "")
         \o (IF CondAnd(c, P) = P THEN "P" ELSE "") \o (IF CondAnd(c, V) = V THEN "V" ELSE "")

\* Instruction.__init__
Instruction(op, cond, reg_target, reg_src1, reg_src2, offset, res) ==
    [op |-> op, cond |-> cond, reg_target |-> reg_target, reg_src1 |-> reg_src1,
     reg_src2 |-> reg_src2, offset |-> offset, reserved |-> res]

NoInstr == Instruction("HALT", 0, 0, 0, 0, 0, 0)

\* Instruction.__str__ as the tuple of the parts of the rendered text
InstrStr(i) ==
    <<i.op, IF i.cond = ALWAYS THEN "" ELSE "/" \o CondStr(i.cond),
      i.reg_target, i.reg_src1, i.reg_src2, i.offset>>

\* decode raises ValueError when the op field holds no declared OpCode
DecodeRaises(w) == Extract(op_field, w) \notin OpValues

decode_unsigned_offset(w) ==
    Instruction(OpCodeOf(Extract(op_field, w)), Extract(cond_field, w),
                Extract(reg_target_field, w), Extract(reg_src1_field, w),
                Extract(reg_src2_field, w), Extract(offset_field, w),
                Extract(reserved, w))

\* decode(word)
decode(w) ==
    Instruction(OpCodeOf(Extract(op_field, w)), Extract(cond_field, w),
                Extract(reg_target_field, w), Extract(reg_src1_field, w),
                Extract(reg_src2_field, w), ExtractSigned(offset_field, w),
                Extract(reserved, w))

\* Instruction.encode
encode_offset_clamped(i) ==
    LET w1 == Insert(op_field, OpCode[i.op], WZero)
        w2 == Insert(cond_field, i.cond, w1)
        w3 == Insert(reg_target_field, i.reg_target, w2)
        w4 == Insert(reg_src1_field, i.reg_src1, w3)
        w5 == Insert(reg_src2_field, i.reg_src2, w4)
        o == IF i.offset > 511 THEN 511 ELSE IF i.offset < -512 THEN -512 ELSE i.offset
    IN  Insert(offset_field, o, w5)

encode(i) ==
    LET w1 == Insert(op_field, OpCode[i.op], WZero)
        w2 == Insert(cond_field, i.cond, w1)
        w3 == Insert(reg_target_field, i.reg_target, w2)
        w4 == Insert(reg_src1_field, i.reg_src1, w3)
        w5 == Insert(reg_src2_field, i.reg_src2, w4)
    IN  Insert(offset_field, i.offset, w5)

-----------------------------------------------------------------------------
(* The codec as a pipeline: an Instruction is built, encoded, decoded. *)

\* register indices and offsets the codec is exercised on: every bit of a
\* register index and the ends and middle of the offset's signed range
RegSamples == {0, 1, 2, 4, 8, 15}
OffsetSamples == {-512, -511, -256, -12, -1, 0, 1, 42, 255, 511}

CodecInputs ==
    {Instruction(op, c, t, s1, s2, o, r) :
        op \in OpNames, c \in CondFlags, t \in RegSamples, s1 \in {0, 5, 10, 15},
        s2 \in {0, 9, 15}, o \in OffsetSamples, r \in {0, 1}}

CodecInit ==
    /\ cStage = "new"
    /\ cInstr \in CodecInputs
    /\ cWord = WZero
    /\ cOut = NoInstr

\* Instruction objects whose offsets span the range the module docstring
\* gives for the field, -2^11 .. 2^11 - 1
DocOffsetMin == 0 - 2048
DocOffsetMax == 2047
DocOffsetSamples == {DocOffsetMin, -1024, -513, -512, -1, 0, 1, 511, 512, 1023, DocOffsetMax}

CodecInputsWide ==
    {Instruction(op, c, t, 5, 10, o, 0) :
        op \in OpNames, c \in {0, 5, 15}, t \in {0, 15}, o \in DocOffsetSamples}

CodecInitWide ==
    /\ cStage = "new"
    /\ cInstr \in CodecInputsWide
    /\ cWord = WZero
    /\ cOut = NoInstr

CodecIdle ==
    /\ cStage = "off"
    /\ cInstr = NoInstr
    /\ cWord = WZero
    /\ cOut = NoInstr

\* words handed to decode as they are found in memory: the words of sampled
\* instructions with bit 31 clear and with bit 31 set
WordInputs ==
    {Insert(reserved, r, encode(Instruction(op, c, t, 5, 10, o, 0))) :
        op \in OpNames, c \in {0, 5, 15}, t \in {0, 15}, o \in {-512, -1, 0, 511},
        r \in {0, 1}}

WordInit ==
    /\ cStage = "encoded"
    /\ cInstr = NoInstr
    /\ cWord \in WordInputs
    /\ cOut = NoInstr

Encode ==
    /\ cStage = "new"
    /\ cWord' = encode(cInstr)
    /\ cStage' = "encoded"
    /\ UNCHANGED <<cInstr, cOut>>
    /\ UNCHANGED <<cpuVars, asmVars, callVars>>

Decode ==
    /\ cStage = "encoded"
    /\ ~DecodeRaises(cWord)
    /\ cOut' = decode(cWord)
    /\ cStage' = "decoded"
    /\ UNCHANGED <<cInstr, cWord>>
    /\ UNCHANGED <<cpuVars, asmVars, callVars>>


-----------------------------------------------------------------------------
(* cpu.py: registers, ALU, CPU.step, CPU.run *)

RegIdx == 0 .. 15

\* CPU.__init__: the kind of register built for each slot
RegKinds_all_plain == [i \in RegIdx |-> "Register"]

RegKinds == [i \in RegIdx |-> IF i = 0 THEN "ZeroRegister" ELSE "Register"]

\* Register.get
RegGet(regs, i) == regs[i]

\* Register.put; ZeroRegister.put ignores the write
RegPut(regs, i, v) ==
    IF RegKinds[i] = "ZeroRegister" THEN regs ELSE [regs EXCEPT ![i] = v]

\* a quotient rounded toward zero, as C's / is
FloorDiv_truncating(x, y) ==
    LET ax == IF x < 0 THEN 0 - x ELSE x
        ay == IF y < 0 THEN 0 - y ELSE y
    IN  IF (x < 0) = (y < 0) THEN ax \div ay ELSE 0 - (ax \div ay)

\* Python's // : the quotient rounded toward negative infinity
FloorDiv(x, y) == IF y > 0 THEN x \div y ELSE (0 - x) \div (0 - y)

\* ALU.ALU_OPS
ALU_OPS(op, x, y) ==
    CASE op = "ADD" -> x + y
      [] op = "SUB" -> x - y
      [] op = "MUL" -> x * y
      [] op = "DIV" -> FloorDiv(x, y)
      [] op = "LOAD" -> x + y
      [] op = "STORE" -> x + y
      [] op = "HALT" -> 0

\* an ALU that reports a division by zero as a zero result
ALUexec_fault_as_zero(op, in1, in2) ==
    IF op = "DIV" /\ in2 = 0 THEN <<0, Z>>
    ELSE LET result == ALU_OPS(op, in1, in2)
         IN  IF result = 0 THEN <<result, Z>>
             ELSE IF result < 0 THEN <<result, M>>
             ELSE <<result, P>>

\* an ALU that gives a zero result no flag
ALUexec_zero_unflagged(op, in1, in2) ==
    IF op = "DIV" /\ in2 = 0 THEN <<0, V>>
    ELSE LET result == ALU_OPS(op, in1, in2)
         IN  IF result = 0 THEN <<result, NEVER>>
             ELSE IF result < 0 THEN <<result, M>>
             ELSE <<result, P>>

\* ALU.exec: <<result, flag>>; an exception of the operation gives <<0, V>>
ALUexec(op, in1, in2) ==
    IF op = "DIV" /\ in2 = 0 THEN <<0, V>>
    ELSE LET result == ALU_OPS(op, in1, in2)
         IN  IF result = 0 THEN <<result, Z>>
             ELSE IF result < 0 THEN <<result, M>>
             ELSE <<result, P>>

\* CPU.step, CHECK PREDICATE: the bitwise AND of the CPU condition and the
\* instruction's condition field has a positive value
Satisfied_requires_all(cond, instr) == CondAnd(cond, instr.cond) = instr.cond

Satisfied(cond, instr) == CondAnd(cond, instr.cond) > 0

\* Memory: the cells it holds
MemHas(mem, addr) == addr \in DOMAIN mem

\* Memory.get / Memory.put on a cell it holds
MemGet(mem, addr) == mem[addr]
MemPut(mem, addr, v) == [mem EXCEPT ![addr] = v]

\* the part of a CPU that step() can change, as one record
CpuRec(regs, cond, hlt, mem, status) ==
    [registers |-> regs, condition |-> cond, halted |-> hlt, memory |-> mem,
     status |-> status]

\* CPU.step, the satisfied branch after the ALU: pc is advanced first, then
\* the effect of the opcode is applied
Effect_halt_ignored(c, instr, result, new_condition) ==
    LET regs1 == RegPut(c.registers, 15, RegGet(c.registers, 15) + 1)
    IN  [c EXCEPT !.registers = regs1]

\* an effect in which LOAD, too, takes the flag of the ALU
Effect_load_sets_flag(c, instr, result, new_condition) ==
    LET regs1 == RegPut(c.registers, 15, RegGet(c.registers, 15) + 1)
        c1 == [c EXCEPT !.registers = regs1]
    IN  CASE instr.op = "STORE" ->
                IF MemHas(c.memory, result)
                THEN [c1 EXCEPT !.memory =
                         MemPut(c.memory, result, RegGet(regs1, instr.reg_target))]
                ELSE [c1 EXCEPT !.status = "memfault"]
          [] instr.op = "LOAD" ->
                IF MemHas(c.memory, result)
                THEN [c1 EXCEPT !.registers =
                         RegPut(regs1, instr.reg_target, MemGet(c.memory, result)),
                                !.condition = new_condition]
                ELSE [c1 EXCEPT !.status = "memfault"]
          [] instr.op = "HALT" -> [c1 EXCEPT !.halted = TRUE]
          [] OTHER ->
                [c1 EXCEPT !.registers = RegPut(regs1, instr.reg_target, result),
                           !.condition = new_condition]

Effect(c, instr, result, new_condition) ==
    LET regs1 == RegPut(c.registers, 15, RegGet(c.registers, 15) + 1)
        c1 == [c EXCEPT !.registers = regs1]
    IN  CASE instr.op = "STORE" ->
                IF MemHas(c.memory, result)
                THEN [c1 EXCEPT !.memory =
                         MemPut(c.memory, result, RegGet(regs1, instr.reg_target))]
                ELSE [c1 EXCEPT !.status = "memfault"]
          [] instr.op = "LOAD" ->
                IF MemHas(c.memory, result)
                THEN [c1 EXCEPT !.registers =
                         RegPut(regs1, instr.reg_target, MemGet(c.memory, result))]
                ELSE [c1 EXCEPT !.status = "memfault"]
          [] instr.op = "HALT" -> [c1 EXCEPT !.halted = TRUE]
          [] OTHER ->
                [c1 EXCEPT !.registers = RegPut(regs1, instr.reg_target, result),
                           !.condition = new_condition]

\* CPU.step, the branch taken when the predicate is not satisfied
Skip_clears_flag(c) ==
    [c EXCEPT !.registers = RegPut(c.registers, 15, RegGet(c.registers, 15) + 1),
              !.condition = ALWAYS]

Skip(c) ==
    [c EXCEPT !.registers = RegPut(c.registers, 15, RegGet(c.registers, 15) + 1)]

\* CPU.step from CHECK PREDICATE on
Execute_operands_after_increment(c, instr) ==
    IF Satisfied(c.condition, instr)
    THEN LET c1 == Skip(c)
             left_operand == RegGet(c1.registers, instr.reg_src1)
             right_operand == instr.offset + RegGet(c1.registers, instr.reg_src2)
             r == ALUexec(instr.op, left_operand, right_operand)
         IN  Effect(c, instr, r[1], r[2])
    ELSE Skip(c)

Execute(c, instr) ==
    IF Satisfied(c.condition, instr)
    THEN LET left_operand == RegGet(c.registers, instr.reg_src1)
             right_operand == instr.offset + RegGet(c.registers, instr.reg_src2)
             r == ALUexec(instr.op, left_operand, right_operand)
         IN  Effect(c, instr, r[1], r[2])
    ELSE Skip(c)

\* the CPU state a listener of the CPUStep event can read: notify_all is
\* called after decode and before the predicate is checked
Notified_after_execute(before, after) == after

Notified(before, after) == before

\* class CPUStep: pc_addr, instr_word, instr (and, for the model, what the
\* subject looked like when the event was delivered)
CPUStep(seen, pc_addr, instr_word, instr) ==
    [pc_addr |-> pc_addr, instr_word |-> instr_word, instr |-> instr, seen |-> seen]

\* CPU.step as a function of the CPU: the CPU after the call, whether decode
\* raised, and the event published
StepOutcome(c) ==
    LET instr_addr == RegGet(c.registers, 15)
    IN  IF ~MemHas(c.memory, instr_addr)
        THEN [cpu |-> [c EXCEPT !.status = "memfault"], published |-> FALSE,
              event |-> CPUStep(c, instr_addr, 0, NoInstr), satisfied |-> FALSE]
        ELSE LET instr_word == MemGet(c.memory, instr_addr)
             IN  IF DecodeRaises(Wide(instr_word))
                 THEN [cpu |-> [c EXCEPT !.status = "raised"], published |-> FALSE,
                       event |-> CPUStep(c, instr_addr, instr_word, NoInstr),
                       satisfied |-> FALSE]
                 ELSE LET instr == decode(Wide(instr_word))
                          after == Execute(c, instr)
                      IN  [cpu |-> after, published |-> TRUE,
                           event |-> CPUStep(Notified(c, after), instr_addr,
                                             instr_word, instr),
                           satisfied |-> Satisfied(c.condition, instr)]

-----------------------------------------------------------------------------
(* The CPU as a state machine *)

Cpu == CpuRec(registers, condition, halted, memory, "ok")

Abs(x) == IF x < 0 THEN 0 - x ELSE x

\* the memory cells a program may hold: instruction words and data
I(op, cond, t, s1, s2, off) == Narrow(encode(Instruction(op, cond, t, s1, s2, off, 0)))

BadOpWord == 4 * (2 ^ 26)

WordSamples ==
    { I("HALT", ALWAYS, 0, 0, 0, 0),
      I("HALT", Z, 0, 0, 0, 0),
      0,
      I("ADD", ALWAYS, 0, 0, 0, 5),
      I("SUB", ALWAYS, 1, 0, 0, 1),
      I("ADD", P, 15, 0, 15, -1),
      I("LOAD", ALWAYS, 0, 0, 15, 1),
      I("STORE", M, 1, 0, 15, 1),
      I("DIV", ALWAYS, 2, 1, 0, 0),
      I("LOAD", ALWAYS, 15, 0, 15, 1),
      I("STORE", ALWAYS, 15, 0, 15, 1),
      BadOpWord }

\* operands and results stay within the explored range; a loaded cell may be
\* any cell of the memory
StepInBounds(c, out) ==
    LET instr == out.event.instr
    IN  out.published /\ out.satisfied /\ instr.op \in {"ADD", "SUB", "MUL", "DIV"} =>
            /\ Abs(RegGet(c.registers, instr.reg_src1)) <= MaxVal
            /\ Abs(RegGet(c.registers, instr.reg_src2)) <= MaxVal
            /\ Abs(RegGet(out.cpu.registers, instr.reg_target)) <= MaxVal

NoEvent == CPUStep(CpuRec([i \in RegIdx |-> 0], ALWAYS, FALSE, <<>>, "ok"), 0, 0, NoInstr)

NoStep == [kind |-> "none", satisfied |-> FALSE]

NoRun == [from_addr |-> 0, word |-> 0, steps |-> 0, halts |-> 0]

\* CPU.__init__ on a Memory holding a loaded object file
CpuInit ==
    /\ registers = [i \in RegIdx |-> 0]
    /\ condition = ALWAYS
    /\ halted = FALSE
    /\ memory \in [0 .. MemSize - 1 -> WordSamples]
    /\ mode = "idle"
    /\ nSteps = 0
    /\ nEvents = 0
    /\ lastEvent = NoEvent
    /\ lastStep = NoStep
    /\ runInfo = NoRun

CpuIdle ==
    /\ registers = [i \in RegIdx |-> 0]
    /\ condition = ALWAYS
    /\ halted = FALSE
    /\ memory = <<>>
    /\ mode = "off"
    /\ nSteps = 0
    /\ nEvents = 0
    /\ lastEvent = NoEvent
    /\ lastStep = NoStep
    /\ runInfo = NoRun

\* one call of step(), by run() or by another caller
DoStep(inRun) ==
    \E out \in {StepOutcome(Cpu)} :
        /\ nSteps < MaxSteps
        /\ StepInBounds(Cpu, out)
        /\ registers' = out.cpu.registers
        /\ condition' = out.cpu.condition
        /\ halted' = out.cpu.halted
        /\ memory' = out.cpu.memory
        /\ nSteps' = nSteps + 1
        /\ nEvents' = IF out.published THEN nEvents + 1 ELSE nEvents
        /\ lastEvent' = IF out.published THEN out.event ELSE lastEvent
        /\ lastStep' = [kind |-> IF out.published THEN "done" ELSE out.cpu.status,
                        satisfied |-> out.satisfied]
        /\ mode' = IF out.cpu.status = "ok" THEN mode ELSE out.cpu.status
        /\ runInfo' =
              IF inRun
              THEN [runInfo EXCEPT
                      !.steps = @ + 1,
                      !.halts = IF out.published /\ out.satisfied
                                   /\ out.event.instr.op = "HALT"
                                THEN @ + 1 ELSE @]
              ELSE runInfo
        /\ UNCHANGED <<codecVars, asmVars, callVars>>

\* a run that starts from the state of a new CPU
Run_resets_cpu(from_addr) ==
    /\ mode \in {"idle", "returned"}
    /\ halted' = FALSE
    /\ registers' = RegPut([i \in RegIdx |-> 0], 15, from_addr)
    /\ condition' = ALWAYS
    /\ mode' = "running"
    /\ runInfo' = [from_addr |-> from_addr, word |-> memory[from_addr],
                    steps |-> 0, halts |-> 0]
    /\ lastStep' = NoStep
    /\ UNCHANGED <<memory, nSteps, nEvents, lastEvent>>
    /\ UNCHANGED <<codecVars, asmVars, callVars>>

\* CPU.run: halted = False, pc = from_addr
Run(from_addr) ==
    /\ mode \in {"idle", "returned"}
    /\ halted' = FALSE
    /\ registers' = RegPut(registers, 15, from_addr)
    /\ mode' = "running"
    /\ runInfo' = [from_addr |-> from_addr, word |-> memory[from_addr],
                    steps |-> 0, halts |-> 0]
    /\ lastStep' = NoStep
    /\ UNCHANGED <<condition, memory, nSteps, nEvents, lastEvent>>
    /\ UNCHANGED <<codecVars, asmVars, callVars>>

\* CPU.run: the loop condition, while not self.halted
RunLoopCondition_ignores_halted(hlt) == TRUE

RunLoopCondition(hlt) == ~hlt

\* CPU.run: while not self.halted: self.step()
RunStep ==
    /\ mode = "running"
    /\ RunLoopCondition(halted)
    /\ DoStep(TRUE)

\* CPU.run: the loop ends and run returns
RunReturn ==
    /\ mode = "running"
    /\ ~RunLoopCondition(halted)
    /\ mode' = "returned"
    /\ lastStep' = NoStep
    /\ UNCHANGED <<registers, condition, halted, memory, nSteps, nEvents,
                   lastEvent, runInfo>>
    /\ UNCHANGED <<codecVars, asmVars, callVars>>

\* step() called by a caller other than run()
DirectStep ==
    /\ mode \in {"idle", "returned"}
    /\ DoStep(FALSE)

RunAny == \E from_addr \in DOMAIN memory : Run(from_addr)


-----------------------------------------------------------------------------
(* ALU.exec and the CondFlag operations called directly, as the unit tests *)
(* call them.                                                              *)

\* operands of a direct call of ALU.exec lie in -AluMax .. AluMax
AluMax == 6

NoOut == [result |-> 0, flag |-> NEVER, text |-> ""]

NoCall == [stage |-> "off", fn |-> "none", op |-> "HALT", x |-> 0, y |-> 0, out |-> NoOut]

\* alu.exec(op, x, y); str(x | y), x | y, x & y for CondFlags x and y
CallInputs ==
    {[stage |-> "new", fn |-> "exec", op |-> op, x |-> x, y |-> y, out |-> NoOut] :
        op \in OpNames, x \in (0 - AluMax) .. AluMax, y \in (0 - AluMax) .. AluMax}
    \cup
    {[stage |-> "new", fn |-> f, op |-> "HALT", x |-> x, y |-> y, out |-> NoOut] :
        f \in {"str", "or", "and"}, x \in CondFlags, y \in CondFlags}

ExecCall ==
    /\ call.stage = "new" /\ call.fn = "exec"
    /\ \E r \in {ALUexec(call.op, call.x, call.y)} :
          call' = [call EXCEPT !.stage = "returned",
                               !.out = [NoOut EXCEPT !.result = r[1], !.flag = r[2]]]
    /\ UNCHANGED <<proc, earlier, codecVars, cpuVars, asmVars>>

StrCall ==
    /\ call.stage = "new" /\ call.fn = "str"
    /\ call' = [call EXCEPT !.stage = "returned",
                            !.out = [NoOut EXCEPT !.flag = CondOr(call.x, call.y),
                                                  !.text = CondStr(CondOr(call.x, call.y))]]
    /\ UNCHANGED <<proc, earlier, codecVars, cpuVars, asmVars>>

OrCall ==
    /\ call.stage = "new" /\ call.fn = "or"
    /\ call' = [call EXCEPT !.stage = "returned",
                            !.out = [NoOut EXCEPT !.flag = CondOr(call.x, call.y)]]
    /\ UNCHANGED <<proc, earlier, codecVars, cpuVars, asmVars>>

AndCall ==
    /\ call.stage = "new" /\ call.fn = "and"
    /\ call' = [call EXCEPT !.stage = "returned",
                            !.out = [NoOut EXCEPT !.flag = CondAnd(call.x, call.y)]]
    /\ UNCHANGED <<proc, earlier, codecVars, cpuVars, asmVars>>

-----------------------------------------------------------------------------
(* Assembly source lines.                                                  *)
(* A line of text is held by its parts: the optional label, the shape of   *)
(* what follows it, the tokens of that shape, and the optional comment.    *)
(* "" stands for an absent label or comment, <<>> for an absent predicate. *)
(* A predicate is the sequence of its letters.  trail is the white space   *)
(* that ends the line (spaces, a newline), "" if there is none.            *)
(*   blank   nothing after the label                                       *)
(*   instr3  opcode[/predicate] target,src1,src2[offset]                   *)
(*   instr1  opcode[/predicate] target,labelref                            *)
(*   jump    JUMP[/predicate] labelref                                     *)
(*   data    DATA [value]                                                  *)
(*   junk    anything else                                                 *)

Line(label, form, opcode, predicate, target, src1, src2, hasOffset, offset, labelref, hasValue, hex, value, comment) ==
    [label |-> label, form |-> form, opcode |-> opcode, predicate |-> predicate,
     target |-> target, src1 |-> src1, src2 |-> src2, hasOffset |-> hasOffset,
     offset |-> offset, labelref |-> labelref, hasValue |-> hasValue,
     hex |-> hex, value |-> value, comment |-> comment, trail |-> ""]

\* the line followed by white space
WithTrail(line, ws) == [line EXCEPT !.trail = ws]

\* an rstrip that removes nothing
rstrip_nothing(line) == line

\* str.rstrip
rstrip(line) == [line EXCEPT !.trail = ""]

BlankLine(label, comment) ==
    Line(label, "blank", "", <<>>, "", "", "", FALSE, 0, "", FALSE, FALSE, <<>>, comment)

FullLine(label, opcode, predicate, target, src1, src2, hasOffset, offset, comment) ==
    Line(label, "instr3", opcode, predicate, target, src1, src2, hasOffset, offset,
         "", FALSE, FALSE, <<>>, comment)

MemopLine(label, opcode, predicate, target, labelref, comment) ==
    Line(label, "instr1", opcode, predicate, target, "", "", FALSE, 0, labelref,
         FALSE, FALSE, <<>>, comment)

JumpLine(label, predicate, labelref, comment) ==
    Line(label, "jump", "JUMP", predicate, "", "", "", FALSE, 0, labelref,
         FALSE, FALSE, <<>>, comment)

DataLine(label, hasValue, hex, value, comment) ==
    Line(label, "data", "DATA", <<>>, "", "", "", FALSE, 0, "", hasValue, hex, value, comment)

JunkLine == Line("", "junk", "", <<>>, "", "", "", FALSE, 0, "", FALSE, FALSE, <<>>, "")

\* NAMED_REGS
NAMED_REGS ==
    [r0 |-> 0, zero |-> 0, r1 |-> 1, r2 |-> 2, r3 |-> 3, r4 |-> 4, r5 |-> 5,
     r6 |-> 6, r7 |-> 7, r8 |-> 8, r9 |-> 9, r10 |-> 10, r11 |-> 11, r12 |-> 12,
     r13 |-> 13, r14 |-> 14, r15 |-> 15, pc |-> 15]

\* the register tokens of the sources that match r[0-9]+
NumberedRegs ==
    {"r0", "r1", "r2", "r3", "r4", "r5", "r6", "r7", "r8", "r9", "r10", "r11",
     "r12", "r13", "r14", "r15", "r16"}

UpperLetters ==
    {"A", "B", "C", "D", "E", "F", "G", "H", "I", "J", "K", "L", "M", "N", "O",
     "P", "Q", "R", "S", "T", "U", "V", "W", "X", "Y", "Z"}

\* (/ (?P<predicate> [A-Z]+) )?
PredicateMatches(p) == \A k \in 1 .. Len(p) : p[k] \in UpperLetters

\* ASM_FULL_PAT
FullPatMatches(line) ==
    /\ line.form = "instr3"
    /\ PredicateMatches(line.predicate)
    /\ line.target \in NumberedRegs
    /\ line.src1 \in NumberedRegs
    /\ line.src2 \in NumberedRegs

\* ASM_DATA_PAT
DataPatMatches(line) == line.form = "data"

\* ASM_COMMENT_PAT
CommentPatMatches(line) == line.form = "blank"

\* ASM_MEMOP_PAT
MemopPatMatches(line) ==
    /\ line.form = "instr1"
    /\ PredicateMatches(line.predicate)
    /\ line.target \in NumberedRegs

\* ASM_JUMP_PAT
JumpPatMatches(line) ==
    /\ line.form = "jump"
    /\ PredicateMatches(line.predicate)

\* assembler_phase1.parse_line: the kind of the first pattern of PATTERNS
\* that matches, or SyntaxError
parse_line1(line) ==
    IF FullPatMatches(line) THEN "FULL"
    ELSE IF DataPatMatches(line) THEN "DATA"
    ELSE IF CommentPatMatches(line) THEN "COMMENT"
    ELSE IF MemopPatMatches(line) THEN "MEMOP"
    ELSE IF JumpPatMatches(line) THEN "JUMP"
    ELSE "SyntaxError"

\* the label table: an empty dict, and dict assignment
NoLabels == [l \in {} |-> 0]

SetLabel_first_wins(labels, l, address) ==
    [x \in DOMAIN labels \cup {l} |-> IF x \in DOMAIN labels THEN labels[x] ELSE address]

SetLabel(labels, l, address) ==
    [x \in DOMAIN labels \cup {l} |-> IF x = l THEN address ELSE labels[x]]

\* resolve: one iteration of the loop over the lines
ResolveLine_counts_comments(acc, line) ==
    LET kind == parse_line1(line)
    IN  IF kind = "SyntaxError" THEN acc
        ELSE [labels |-> IF line.label # "" THEN SetLabel(acc.labels, line.label, acc.address)
                         ELSE acc.labels,
              address |-> acc.address + 1]

ResolveLine(acc, line) ==
    LET kind == parse_line1(line)
    IN  IF kind = "SyntaxError" THEN acc
        ELSE [labels |-> IF line.label # "" THEN SetLabel(acc.labels, line.label, acc.address)
                         ELSE acc.labels,
              address |-> IF kind # "COMMENT" THEN acc.address + 1 ELSE acc.address]

RECURSIVE ResolveFrom(_, _, _)
ResolveFrom(acc, lines, k) ==
    IF k > Len(lines) THEN acc
    ELSE ResolveFrom(ResolveLine(acc, lines[k]), lines, k + 1)

\* a resolve that starts from the label table of the run made before
resolve_keeps_labels(lines) ==
    ResolveFrom([labels |-> earlier.labels, address |-> 0], lines, 1).labels

\* resolve(lines)
resolve(lines) == ResolveFrom([labels |-> NoLabels, address |-> 0], lines, 1).labels

\* mem_addr: labels[ref] - address; a missing label raises KeyError
mem_addr_pc_plus_one(fields, labels, address) == labels[fields.labelref] - (address + 1)

mem_addr(fields, labels, address) == labels[fields.labelref] - address

\* fix_optional_fields, on the comment: None becomes four spaces
FixComment(comment) == IF comment = "" THEN "    " ELSE comment

\* the end of a lowered line, #{labelref}  {comment}: when the line had a
\* comment the two make up the comment of the new line; when it had none,
\* the new line ends in the two spaces and the four of the absent comment
LoweredComment(f) ==
    IF f.comment = "" THEN "#" \o f.labelref
    ELSE "#" \o f.labelref \o "  " \o FixComment(f.comment)

LoweredTrail(f) == IF f.comment = "" THEN "  " \o FixComment(f.comment) ELSE ""

\* transform, the MEMOP branch: the line
\*   {label}   {opcode}{predicate}  {target},r0,r15[{pc_relative_address}] #{labelref}  {comment}
LowerMemop(f, pc_relative_address) ==
    WithTrail(FullLine(f.label, f.opcode, f.predicate, f.target, "r0", "r15", TRUE,
                       pc_relative_address, LoweredComment(f)),
              LoweredTrail(f))

\* transform, the JUMP branch: the line
\*   {label}   ADD{predicate} r15,r0,r15[{pc_relative_address}] #{labelref}  {comment}
LowerJump_unlowered(f, pc_relative_address) == f

LowerJump(f, pc_relative_address) ==
    WithTrail(FullLine(f.label, "ADD", f.predicate, "r15", "r0", "r15", TRUE,
                       pc_relative_address, LoweredComment(f)),
              LoweredTrail(f))

ERROR_LIMIT_1 == 10

\* the state of one call of transform(lines); fields is the local variable
\* of that name (unbound until a line has parsed), origin records for each
\* output line the source line and the address it was produced at
TransformStart(lines) ==
    [stage |-> "loop", lnum |-> 0, labels |-> resolve(lines), error_count |-> 0,
     transformed |-> <<>>, origin |-> <<>>, address |-> 0,
     fields |-> [bound |-> FALSE, kind |-> ""]]

\* transform: one iteration of the loop over the lines
TransformLine_error_keeps_address(t, line) ==
    LET kind == parse_line1(line)
        here == [lnum |-> t.lnum, address |-> t.address]
        keyError == kind \in {"MEMOP", "JUMP"} /\ line.labelref \notin DOMAIN t.labels
        failed == kind = "SyntaxError" \/ keyError
        out == IF kind = "MEMOP" THEN LowerMemop(line, mem_addr(line, t.labels, t.address))
               ELSE IF kind = "JUMP" THEN LowerJump(line, mem_addr(line, t.labels, t.address))
               ELSE rstrip(line)
        fields == IF kind = "SyntaxError" THEN t.fields ELSE [bound |-> TRUE, kind |-> kind]
        error_count == IF failed THEN t.error_count + 1 ELSE t.error_count
        t1 == [t EXCEPT !.transformed = IF failed THEN @ ELSE Append(@, out),
                        !.origin = IF failed THEN @ ELSE Append(@, here),
                        !.error_count = error_count,
                        !.fields = fields]
    IN  IF ~fields.bound THEN [t1 EXCEPT !.stage = "UnboundLocalError"]
        ELSE LET t2 == [t1 EXCEPT !.address = IF fields.kind # "COMMENT" /\ ~failed
                                               THEN @ + 1 ELSE @,
                                  !.lnum = @ + 1]
             IN  IF error_count > ERROR_LIMIT_1 THEN [t2 EXCEPT !.stage = "exit"]
                 ELSE t2

TransformLine(t, line) ==
    LET kind == parse_line1(line)
        here == [lnum |-> t.lnum, address |-> t.address]
        keyError == kind \in {"MEMOP", "JUMP"} /\ line.labelref \notin DOMAIN t.labels
        failed == kind = "SyntaxError" \/ keyError
        out == IF kind = "MEMOP" THEN LowerMemop(line, mem_addr(line, t.labels, t.address))
               ELSE IF kind = "JUMP" THEN LowerJump(line, mem_addr(line, t.labels, t.address))
               ELSE rstrip(line)
        fields == IF kind = "SyntaxError" THEN t.fields ELSE [bound |-> TRUE, kind |-> kind]
        error_count == IF failed THEN t.error_count + 1 ELSE t.error_count
        t1 == [t EXCEPT !.transformed = IF failed THEN @ ELSE Append(@, out),
                        !.origin = IF failed THEN @ ELSE Append(@, here),
                        !.error_count = error_count,
                        !.fields = fields]
    IN  IF ~fields.bound THEN [t1 EXCEPT !.stage = "UnboundLocalError"]
        ELSE LET t2 == [t1 EXCEPT !.address = IF fields.kind # "COMMENT" THEN @ + 1 ELSE @,
                                  !.lnum = @ + 1]
             IN  IF error_count > ERROR_LIMIT_1 THEN [t2 EXCEPT !.stage = "exit"]
                 ELSE t2

-----------------------------------------------------------------------------
(* assembler_phase2: parse_line, instruction_from_dict, assemble *)

\* assembler_phase2.parse_line: PATTERNS holds FULL, DATA and COMMENT only
parse_line2(line) ==
    IF FullPatMatches(line) THEN "FULL"
    ELSE IF DataPatMatches(line) THEN "DATA"
    ELSE IF CommentPatMatches(line) THEN "COMMENT"
    ELSE "SyntaxError"

\* CondFlag.__members__, each name as the sequence of its letters
CondFlagMembers ==
    (<<"M">> :> M) @@ (<<"Z">> :> Z) @@ (<<"P">> :> P) @@ (<<"V">> :> V)
    @@ (<<"N", "E", "V", "E", "R">> :> NEVER)
    @@ (<<"A", "L", "W", "A", "Y", "S">> :> ALWAYS)

\* to_flag raises KeyError for a bit name that is no member
ToFlagRaises(m) ==
    /\ m \notin DOMAIN CondFlagMembers
    /\ \E k \in 1 .. Len(m) : <<m[k]>> \notin DOMAIN CondFlagMembers

RECURSIVE Composite(_, _, _)
Composite(composite, m, k) ==
    IF k > Len(m) THEN composite
    ELSE Composite(CondOr(composite, CondFlagMembers[<<m[k]>>]), m, k + 1)

\* assembler_phase2.to_flag
to_flag(m) ==
    IF m \in DOMAIN CondFlagMembers THEN CondFlagMembers[m] ELSE Composite(NEVER, m, 1)

\* fill_defaults: INSTR_DEFAULTS gives predicate 'ALWAYS' and offset '0'
fill_defaults(fields) ==
    [fields EXCEPT !.predicate = IF @ = <<>> THEN <<"A", "L", "W", "A", "Y", "S">> ELSE @,
                   !.offset = IF fields.hasOffset THEN @ ELSE 0,
                   !.hasOffset = TRUE]

\* instruction_from_dict raises KeyError for an unknown opcode, predicate
\* letter or register name
InstructionFromDictRaises(d) ==
    \/ d.opcode \notin OpNames
    \/ ToFlagRaises(d.predicate)
    \/ d.target \notin DOMAIN NAMED_REGS
    \/ d.src1 \notin DOMAIN NAMED_REGS
    \/ d.src2 \notin DOMAIN NAMED_REGS

\* instruction_from_dict
instruction_from_dict(d) ==
    Instruction(d.opcode, to_flag(d.predicate), NAMED_REGS[d.target],
                NAMED_REGS[d.src1], NAMED_REGS[d.src2], d.offset, 0)

\* int(literal, base) on the digits of the literal
RECURSIVE DigitsValue(_, _, _, _)
DigitsValue(acc, digits, base, k) ==
    IF k > Len(digits) THEN acc
    ELSE LET low == acc.lo * base + digits[k]
         IN  DigitsValue([hi |-> acc.hi * base + low \div Half, lo |-> low % Half],
                         digits, base, k + 1)

\* assembler_phase2.value_parse: a literal is hexadecimal when it starts with 0x
value_parse(hex, digits) == DigitsValue(WZero, digits, IF hex THEN 16 ELSE 10, 1)

ERROR_LIMIT_2 == 15

\* the state of one call of assemble(lines)
AssembleStart(lines) ==
    [stage |-> "loop", lines |-> lines, lnum |-> 0, error_count |-> 0, instructions |-> <<>>]

\* assemble: one iteration of the loop over the lines
AssembleLine_comment_emits(a, line) ==
    LET kind == parse_line2(line)
        d == fill_defaults(line)
        failed == \/ kind = "SyntaxError"
                  \/ kind = "FULL" /\ InstructionFromDictRaises(d)
                  \/ kind = "DATA" /\ ~line.hasValue
        word == IF kind = "FULL" THEN encode(instruction_from_dict(d))
                ELSE IF kind = "DATA" THEN value_parse(line.hex, line.value)
                ELSE WZero
        error_count == IF failed THEN a.error_count + 1 ELSE a.error_count
        a1 == [a EXCEPT !.instructions = IF failed THEN @ ELSE Append(@, word),
                        !.error_count = error_count,
                        !.lnum = @ + 1]
    IN  IF error_count > ERROR_LIMIT_2 THEN [a1 EXCEPT !.stage = "exit"] ELSE a1

AssembleLine_error_uncounted(a, line) ==
    LET kind == parse_line2(line)
        d == fill_defaults(line)
        failed == \/ kind = "SyntaxError"
                  \/ kind = "FULL" /\ InstructionFromDictRaises(d)
                  \/ kind = "DATA" /\ ~line.hasValue
        word == IF kind = "FULL" THEN encode(instruction_from_dict(d))
                ELSE value_parse(line.hex, line.value)
        error_count == IF failed /\ kind # "FULL" THEN a.error_count + 1 ELSE a.error_count
        a1 == [a EXCEPT !.instructions = IF failed \/ kind = "COMMENT" THEN @
                                         ELSE Append(@, word),
                        !.error_count = error_count,
                        !.lnum = @ + 1]
    IN  IF error_count > ERROR_LIMIT_2 THEN [a1 EXCEPT !.stage = "exit"] ELSE a1

AssembleLine(a, line) ==
    LET kind == parse_line2(line)
        d == fill_defaults(line)
        failed == \/ kind = "SyntaxError"
                  \/ kind = "FULL" /\ InstructionFromDictRaises(d)
                  \/ kind = "DATA" /\ ~line.hasValue
        word == IF kind = "FULL" THEN encode(instruction_from_dict(d))
                ELSE value_parse(line.hex, line.value)
        error_count == IF failed THEN a.error_count + 1 ELSE a.error_count
        a1 == [a EXCEPT !.instructions = IF failed \/ kind = "COMMENT" THEN @
                                         ELSE Append(@, word),
                        !.error_count = error_count,
                        !.lnum = @ + 1]
    IN  IF error_count > ERROR_LIMIT_2 THEN [a1 EXCEPT !.stage = "exit"] ELSE a1

-----------------------------------------------------------------------------
(* The tool chain: transform, assemble, load the object code, run. *)

NoTransform ==
    [stage |-> "ready", lnum |-> 0, labels |-> NoLabels, error_count |-> 0,
     transformed |-> <<>>, origin |-> <<>>, address |-> 0,
     fields |-> [bound |-> FALSE, kind |-> ""]]

NoAssemble ==
    [stage |-> "ready", lines |-> <<>>, lnum |-> 0, error_count |-> 0, instructions |-> <<>>]

\* the lines the sources are made of
Dec(n) == <<n>>

LineSamples ==
    { BlankLine("", ""),
      BlankLine("x", ""),
      MemopLine("again", "STORE", <<>>, "r1", "x", ""),
      FullLine("", "SUB", <<>>, "r1", "r0", "r0", TRUE, 1, ""),
      JumpLine("", <<"P">>, "again", ""),
      FullLine("", "HALT", <<>>, "r0", "r0", "r0", FALSE, 0, ""),
      DataLine("x", TRUE, FALSE, Dec(0), ""),
      MemopLine("", "LOAD", <<"Z", "P">>, "r2", "x", "# get x"),
      JumpLine("", <<>>, "x", ""),
      JunkLine,
      MemopLine("", "LOAD", <<>>, "r1", "nowhere", "") }

\* the example of transform's docstring
ExampleSource ==
    << MemopLine("again", "STORE", <<>>, "r1", "x", ""),
       FullLine("", "SUB", <<>>, "r1", "r0", "r0", TRUE, 1, ""),
       JumpLine("", <<"P">>, "again", ""),
       FullLine("", "HALT", <<>>, "r0", "r0", "r0", FALSE, 0, ""),
       DataLine("x", TRUE, FALSE, Dec(0), "") >>

Sources ==
    {ExampleSource} \cup UNION {[1 .. n -> LineSamples] : n \in 0 .. MaxLines}

AsmInit ==
    /\ asmSrc \in Sources
    /\ phase1 = NoTransform
    /\ phase2 = NoAssemble

AsmIdle ==
    /\ asmSrc = <<>>
    /\ phase1 = [NoTransform EXCEPT !.stage = "off"]
    /\ phase2 = [NoAssemble EXCEPT !.stage = "off"]

\* transform(lines) is called
TransformBegin ==
    /\ phase1.stage = "ready"
    /\ phase1' = TransformStart(asmSrc)
    /\ UNCHANGED <<asmSrc, phase2, codecVars, cpuVars, callVars>>

\* transform: the loop body on the next line
TransformStep ==
    /\ phase1.stage = "loop"
    /\ phase1.lnum < Len(asmSrc)
    /\ phase1' = TransformLine(phase1, asmSrc[phase1.lnum + 1])
    /\ UNCHANGED <<asmSrc, phase2, codecVars, cpuVars, callVars>>

\* transform: return transformed
TransformReturn ==
    /\ phase1.stage = "loop"
    /\ phase1.lnum = Len(asmSrc)
    /\ phase1' = [phase1 EXCEPT !.stage = "done"]
    /\ UNCHANGED <<asmSrc, phase2, codecVars, cpuVars, callVars>>

\* assemble(lines) is called on the lines transform returned
AssembleBegin ==
    /\ phase1.stage = "done"
    /\ phase2.stage = "ready"
    /\ phase2' = AssembleStart(phase1.transformed)
    /\ UNCHANGED <<asmSrc, phase1, codecVars, cpuVars, callVars>>

\* assemble: the loop body on the next line
AssembleStep ==
    /\ phase2.stage = "loop"
    /\ phase2.lnum < Len(phase2.lines)
    /\ phase2' = AssembleLine(phase2, phase2.lines[phase2.lnum + 1])
    /\ UNCHANGED <<asmSrc, phase1, codecVars, cpuVars, callVars>>

\* assemble: return instructions
AssembleReturn ==
    /\ phase2.stage = "loop"
    /\ phase2.lnum = Len(phase2.lines)
    /\ phase2' = [phase2 EXCEPT !.stage = "done"]
    /\ UNCHANGED <<asmSrc, phase1, codecVars, cpuVars, callVars>>

\* the loader places word i of the object code at address i of the Memory
\* of a new CPU
Load ==
    /\ phase2.stage = "done"
    /\ mode = "off"
    /\ memory' = [i \in 0 .. Len(phase2.instructions) - 1 |-> Narrow(phase2.instructions[i + 1])]
    /\ mode' = "idle"
    /\ UNCHANGED <<registers, condition, halted, nSteps, nEvents, lastEvent,
                   lastStep, runInfo>>
    /\ UNCHANGED <<asmSrc, phase1, phase2, codecVars, callVars>>

-----------------------------------------------------------------------------
(* Either phase run on a file of its own: sources that carry the lines a   *)
(* phase rejects, and sources long enough to reach the error thresholds.   *)

Hex(digits) == digits

Good == FullLine("", "HALT", <<>>, "r0", "r0", "r0", FALSE, 0, "")

\* an error of phase 1 only: a reference to a label that is not defined
BadRef == MemopLine("", "LOAD", <<>>, "r1", "nowhere", "")

\* an error of phase 2 only: an opcode that is no OpCode
BadOp == FullLine("", "NOP", <<>>, "r0", "r0", "r0", FALSE, 0, "")

EdgeSamples ==
    { Good, BadRef, BadOp, JunkLine,
      BlankLine("x", "# only a label"),
      \* DATA with and without a value
      DataLine("", FALSE, FALSE, <<>>, ""),
      DataLine("x", TRUE, FALSE, <<4, 2>>, ""),
      DataLine("", TRUE, TRUE, Hex(<<2, 10>>), "# 0x2a"),
      DataLine("", TRUE, TRUE, Hex(<<1, 0, 0, 0>>), ""),
      \* register aliases
      FullLine("", "ADD", <<>>, "pc", "r1", "r2", TRUE, 3, ""),
      FullLine("", "SUB", <<"Z">>, "r1", "zero", "r2", FALSE, 0, ""),
      FullLine("", "LOAD", <<>>, "r1", "r2", "pc", TRUE, -1, ""),
      \* mnemonics that are not declared
      FullLine("", "JUMP", <<>>, "r1", "r2", "r3", FALSE, 0, ""),
      FullLine("", "ADD", <<"X">>, "r1", "r2", "r3", FALSE, 0, ""),
      FullLine("", "ADD", <<"Z", "Q">>, "r1", "r2", "r3", FALSE, 0, ""),
      FullLine("x", "ADD", <<>>, "r16", "r0", "r0", FALSE, 0, ""),
      FullLine("", "MUL", <<>>, "r1", "r2", "r16", TRUE, 1, ""),
      \* predicates that are declared
      FullLine("", "DIV", <<"N", "E", "V", "E", "R">>, "r1", "r2", "r3", FALSE, 0, ""),
      FullLine("", "STORE", <<"P", "M">>, "r4", "r0", "r15", TRUE, 7, "# x"),
      \* offsets inside and outside the offset field
      FullLine("", "ADD", <<>>, "r1", "r2", "r3", TRUE, 511, ""),
      FullLine("", "ADD", <<>>, "r1", "r2", "r3", TRUE, 512, ""),
      FullLine("", "SUB", <<"Z">>, "r15", "r0", "r1", TRUE, -513, ""),
      FullLine("", "LOAD", <<>>, "r1", "r0", "r0", TRUE, 5000, ""),
      FullLine("", "STORE", <<"V">>, "r9", "r8", "r7", TRUE, -1024, ""),
      FullLine("", "MUL", <<>>, "r2", "r2", "r2", TRUE, 1023, ""),
      FullLine("", "DIV", <<"M">>, "r14", "r13", "r12", TRUE, -70000, ""),
      \* lines that end in white space
      WithTrail(FullLine("again", "SUB", <<>>, "r1", "r0", "r0", TRUE, 1, "# count"), "  "),
      WithTrail(DataLine("y", TRUE, FALSE, <<7>>, ""), "\n"),
      \* a literal of 33 bits
      DataLine("big", TRUE, TRUE, Hex(<<1, 15, 15, 15, 15, 15, 15, 15, 15>>), "") }

Repeat(line, n) == [k \in 1 .. n |-> line]

\* a good line, n1 lines that fail in phase 1, n2 lines that fail in
\* phase 2, a good line
LongSources ==
    {<<Good>> \o Repeat(BadRef, n1) \o Repeat(BadOp, n2) \o <<Good>> :
        n1 \in 0 .. MaxBad, n2 \in 0 .. MaxBad}

PhaseSources ==
    {ExampleSource} \cup LongSources
    \cup UNION {[1 .. n -> EdgeSamples] : n \in 0 .. MaxEdgeLines}

PhasesInit ==
    /\ asmSrc \in PhaseSources
    /\ phase1 = NoTransform
    /\ phase2 = NoAssemble

\* assemble(lines) is called on the source itself: phase 2 run on a file
\* that phase 1 has not seen
AssembleFile ==
    /\ phase1.stage = "ready"
    /\ phase2.stage = "ready"
    /\ phase1' = [phase1 EXCEPT !.stage = "off"]
    /\ phase2' = AssembleStart(asmSrc)
    /\ UNCHANGED <<asmSrc, codecVars, cpuVars, callVars>>

-----------------------------------------------------------------------------
(* Callers of the functions above *)

\* the run of transform made before the current one: its source, what it
\* returned and the label table it built
NoEarlier == [made |-> FALSE, lines |-> <<>>, transformed |-> <<>>, labels |-> NoLabels]

\* a phase run as a process: which main runs, how far it is, the exception
\* that ended it ("" for none), the exit status and the lines written to
\* the object file
NoProc == [main |-> 0, stage |-> "off", exception |-> "", status |-> 0, objfile |-> <<>>]

\* str(word) for a word that is not negative: its decimal digits
RECURSIVE DecimalDigits(_, _)
DecimalDigits(w, acc) ==
    IF w.hi = 0 /\ w.lo = 0 THEN acc
    ELSE LET r == (w.hi % 10) * Half + w.lo
         IN  DecimalDigits([hi |-> w.hi \div 10, lo |-> r \div 10], <<r % 10>> \o acc)

Decimal(w) == IF w = WZero THEN <<0>> ELSE DecimalDigits(w, <<>>)

\* assembler_phase1.main: lines = sourcefile.readlines();
\* object_code = transform(lines)
Main1Transform ==
    /\ proc.main = 1 /\ proc.stage = "start"
    /\ phase1' = TransformStart(asmSrc)
    /\ proc' = [proc EXCEPT !.stage = "transform"]
    /\ UNCHANGED <<asmSrc, phase2, call, earlier, codecVars, cpuVars>>

\* assembler_phase1.main after transform has returned: labels =
\* resolve(lines), then transform(lines, labels), a call with two arguments
\* of a function that takes one: TypeError, before the loop that writes
\* object_code to the object file
Main1SecondTransform ==
    /\ proc.main = 1 /\ proc.stage = "transform"
    /\ phase1.stage = "done"
    /\ proc' = [proc EXCEPT !.stage = "exited", !.exception = "TypeError", !.status = 1]
    /\ UNCHANGED <<asmSrc, phase1, phase2, call, earlier, codecVars, cpuVars>>

\* assembler_phase1.main when transform does not return: sys.exit(1) past
\* the error limit, or the exception transform lets escape
Main1Abort ==
    /\ proc.main = 1 /\ proc.stage = "transform"
    /\ phase1.stage \in {"exit", "UnboundLocalError"}
    /\ proc' = [proc EXCEPT !.stage = "exited", !.status = 1,
                            !.exception = IF phase1.stage = "exit" THEN "SystemExit"
                                          ELSE phase1.stage]
    /\ UNCHANGED <<asmSrc, phase1, phase2, call, earlier, codecVars, cpuVars>>

\* assembler_phase2.main: lines = sourcefile.readlines();
\* object_code = assemble(lines)
Main2Assemble ==
    /\ proc.main = 2 /\ proc.stage = "start"
    /\ phase2' = AssembleStart(asmSrc)
    /\ proc' = [proc EXCEPT !.stage = "assemble"]
    /\ UNCHANGED <<asmSrc, phase1, call, earlier, codecVars, cpuVars>>

\* assembler_phase2.main: for word in object_code: print(word, file=objfile)
Main2Write ==
    /\ proc.main = 2 /\ proc.stage = "assemble"
    /\ phase2.stage = "done"
    /\ proc' = [proc EXCEPT !.stage = "exited", !.status = 0,
                            !.objfile = [i \in 1 .. Len(phase2.instructions) |->
                                            Decimal(phase2.instructions[i])]]
    /\ UNCHANGED <<asmSrc, phase1, phase2, call, earlier, codecVars, cpuVars>>

\* assembler_phase2.main when assemble calls sys.exit(1)
Main2Abort ==
    /\ proc.main = 2 /\ proc.stage = "assemble"
    /\ phase2.stage = "exit"
    /\ proc' = [proc EXCEPT !.stage = "exited", !.status = 1, !.exception = "SystemExit"]
    /\ UNCHANGED <<asmSrc, phase1, phase2, call, earlier, codecVars, cpuVars>>

\* transform has returned and is called again in the same interpreter, on
\* the same source, on the source without its first line or on the lines
\* it returned
NextRun ==
    /\ phase1.stage = "done"
    /\ ~earlier.made
    /\ earlier' = [made |-> TRUE, lines |-> asmSrc, transformed |-> phase1.transformed,
                   labels |-> phase1.labels]
    /\ asmSrc' \in {asmSrc, phase1.transformed}
                    \cup (IF asmSrc = <<>> THEN {} ELSE {Tail(asmSrc)})
    /\ phase1' = NoTransform
    /\ UNCHANGED <<phase2, call, proc, codecVars, cpuVars>>

MainInit ==
    /\ asmSrc \in PhaseSources
    /\ phase1 = NoTransform
    /\ phase2 = NoAssemble
    /\ call = NoCall
    /\ earlier = NoEarlier
    /\ proc \in {[NoProc EXCEPT !.main = m, !.stage = "start"] : m \in {1, 2}}

CallIdle ==
    /\ call = NoCall
    /\ proc = NoProc
    /\ earlier = NoEarlier

CallInit ==
    /\ call \in CallInputs
    /\ proc = NoProc
    /\ earlier = NoEarlier

-----------------------------------------------------------------------------
(* The specifications *)

Init == CodecIdle /\ CpuInit /\ AsmIdle /\ CallIdle

Next ==
    \/ RunAny
    \/ RunStep
    \/ RunReturn
    \/ DirectStep

Spec == Init /\ [][Next]_vars

InitCodec == CodecInit /\ CpuIdle /\ AsmIdle /\ CallIdle

NextCodec == Encode \/ Decode

SpecCodec == InitCodec /\ [][NextCodec]_vars

\* encode and decode on offsets of the documented range
InitCodecWide == CodecInitWide /\ CpuIdle /\ AsmIdle /\ CallIdle

NextCodecWide == Encode \/ Decode

SpecCodecWide == InitCodecWide /\ [][NextCodecWide]_vars

\* direct calls of ALU.exec and of the CondFlag operations
InitCalls == CodecIdle /\ CpuIdle /\ AsmIdle /\ CallInit

NextCalls ==
    \/ ExecCall
    \/ StrCall
    \/ OrCall
    \/ AndCall

SpecCalls == InitCalls /\ [][NextCalls]_vars

\* a phase of the assembler run as a process
InitMain == CodecIdle /\ CpuIdle /\ MainInit

NextMain ==
    \/ Main1Transform
    \/ TransformStep
    \/ TransformReturn
    \/ Main1SecondTransform
    \/ Main1Abort
    \/ Main2Assemble
    \/ AssembleStep
    \/ AssembleReturn
    \/ Main2Write
    \/ Main2Abort

SpecMain == InitMain /\ [][NextMain]_vars

\* transform called twice
InitRuns == CodecIdle /\ CpuIdle /\ AsmInit /\ CallIdle

NextRuns ==
    \/ TransformBegin
    \/ TransformStep
    \/ TransformReturn
    \/ NextRun

SpecRuns == InitRuns /\ [][NextRuns]_vars

InitDecode == WordInit /\ CpuIdle /\ AsmIdle /\ CallIdle

NextDecode == Decode

SpecDecode == InitDecode /\ [][NextDecode]_vars

InitAsm == CodecIdle /\ CpuIdle /\ AsmInit /\ CallIdle

NextAsm ==
    \/ TransformBegin
    \/ TransformStep
    \/ TransformReturn
    \/ AssembleBegin
    \/ AssembleStep
    \/ AssembleReturn
    \/ Load
    \/ RunAny
    \/ RunStep
    \/ RunReturn

SpecAsm == InitAsm /\ [][NextAsm]_vars

InitPhases == CodecIdle /\ CpuIdle /\ PhasesInit /\ CallIdle

NextPhases ==
    \/ TransformBegin
    \/ TransformStep
    \/ TransformReturn
    \/ AssembleBegin
    \/ AssembleFile
    \/ AssembleStep
    \/ AssembleReturn

SpecPhases == InitPhases /\ [][NextPhases]_vars

-----------------------------------------------------------------------------
(* C1: for every OpCode, every CondFlag, register indices 0..15 and an     *)
(* offset in -512..511, decode(encode(instr)) has the op, cond, target,    *)
(* src1, src2 and offset of instr, renders identically, and has reserved   *)
(* 0 whatever instr.reserved was.                                          *)
C1_RoundTrip ==
    cStage = "decoded" =>
        /\ cOut.op = cInstr.op
        /\ cOut.cond = cInstr.cond
        /\ cOut.reg_target = cInstr.reg_target
        /\ cOut.reg_src1 = cInstr.reg_src1
        /\ cOut.reg_src2 = cInstr.reg_src2
        /\ cOut.offset = cInstr.offset
        /\ InstrStr(cOut) = InstrStr(cInstr)
        /\ cOut.reserved = 0

C1_Witness ==
    /\ cStage = "decoded"
    /\ cInstr.op = "SUB"
    /\ cInstr.cond = 3
    /\ cInstr.offset = -12
    /\ cInstr.reserved = 1
    /\ cInstr.reg_target = 15
    /\ cOut.offset = -12

-----------------------------------------------------------------------------
(* C2: CPU.step() never raises, whatever word the pc points at, also a     *)
(* word whose op field holds no declared OpCode.                           *)
(* The code: decode builds OpCode(op_field.extract(word)), which raises    *)
(* ValueError for 4 and 8..31, and step() does not catch it.               *)
C2_StepNeverRaises == lastStep.kind # "raised" /\ mode # "raised"

-----------------------------------------------------------------------------
(* What the assembler claims speak of, counted on the source itself. *)

\* the lines that get an address: FULL, DATA, MEMOP and JUMP lines
\* the line without the white space that ends it
WithoutTrail(line) == [line EXCEPT !.trail = ""]

IsNonComment(line) == parse_line1(line) \in {"FULL", "DATA", "MEMOP", "JUMP"}

\* the address of line k (1-based): the number of non-COMMENT lines before it
LineAddress(lines, k) == Cardinality({j \in 1 .. k - 1 : IsNonComment(lines[j])})

\* the lines that define label l, and the definition that stands (the last)
Definitions(lines, l) ==
    {k \in 1 .. Len(lines) : lines[k].label = l /\ parse_line1(lines[k]) # "SyntaxError"}

LastDefinition(lines, l) ==
    CHOOSE k \in Definitions(lines, l) : \A j \in Definitions(lines, l) : j <= k

\* the value of resolve's variable address when its loop reaches line k
AddressAt(lines, k) ==
    ResolveFrom([labels |-> NoLabels, address |-> 0], SubSeq(lines, 1, k - 1), 1).address

IsReference(line) == parse_line1(line) \in {"MEMOP", "JUMP"}

\* a source with no erroneous line: every line matches a pattern and every
\* label referred to is defined
ErrorFree(lines) ==
    \A k \in 1 .. Len(lines) :
        /\ parse_line1(lines[k]) # "SyntaxError"
        /\ IsReference(lines[k]) => Definitions(lines, lines[k].labelref) # {}

Resolved == phase1.stage \in {"loop", "done", "exit", "UnboundLocalError"}

-----------------------------------------------------------------------------
(* C5: Pass A (resolve) gives the non-COMMENT lines the addresses 0, 1, 2, *)
(* ... in source order and a COMMENT line consumes none; a label maps to   *)
(* the address of the line that defines it, and a label on a COMMENT line  *)
(* maps to the address of the next non-COMMENT line.                       *)
C5_PassA ==
    Resolved =>
        /\ \A k \in 1 .. Len(asmSrc) :
              parse_line1(asmSrc[k]) # "SyntaxError" =>
                  AddressAt(asmSrc, k) = LineAddress(asmSrc, k)
        /\ DOMAIN phase1.labels =
              {asmSrc[k].label : k \in {j \in 1 .. Len(asmSrc) :
                  asmSrc[j].label # "" /\ parse_line1(asmSrc[j]) # "SyntaxError"}}
        /\ \A l \in DOMAIN phase1.labels :
              LET k == LastDefinition(asmSrc, l)
              IN  /\ phase1.labels[l] = LineAddress(asmSrc, k)
                  /\ parse_line1(asmSrc[k]) = "COMMENT" =>
                        \A n \in k + 1 .. Len(asmSrc) :
                            /\ IsNonComment(asmSrc[n])
                            /\ \A j \in k + 1 .. n - 1 : ~IsNonComment(asmSrc[j])
                            => phase1.labels[l] = LineAddress(asmSrc, n)

\* a label on a label-only line that follows an instruction and precedes one
C5_Witness ==
    /\ Resolved
    /\ Len(asmSrc) = 3
    /\ IsNonComment(asmSrc[1])
    /\ parse_line1(asmSrc[2]) = "COMMENT"
    /\ asmSrc[2].label = "x"
    /\ IsNonComment(asmSrc[3])
    /\ phase1.labels["x"] = 1

-----------------------------------------------------------------------------
(* C4: in a source with no erroneous line, Pass B emits for every MEMOP or *)
(* JUMP line the displacement label_address - address of the line, the     *)
(* address of a line being the number of non-COMMENT lines before it;      *)
(* MEMOP becomes opcode[/pred] target,r0,r15[d] and JUMP becomes           *)
(* ADD[/pred] r15,r0,r15[d].  In the docstring example STORE at address 0  *)
(* gets 4 and JUMP at address 2 gets -2.                                   *)
C4_PassB ==
    ErrorFree(asmSrc) =>
        /\ \A i \in 1 .. Len(phase1.transformed) :
              LET k == phase1.origin[i].lnum + 1
                  line == asmSrc[k]
                  out == phase1.transformed[i]
                  d == LineAddress(asmSrc, LastDefinition(asmSrc, line.labelref))
                       - LineAddress(asmSrc, k)
              IN  /\ parse_line1(line) = "MEMOP" =>
                        /\ WithoutTrail(out) =
                              FullLine(line.label, line.opcode, line.predicate,
                                       line.target, "r0", "r15", TRUE, d, out.comment)
                  /\ parse_line1(line) = "JUMP" =>
                        /\ WithoutTrail(out) =
                              FullLine(line.label, "ADD", line.predicate,
                                       "r15", "r0", "r15", TRUE, d, out.comment)
        /\ phase1.stage = "done" =>
              /\ Len(phase1.transformed) = Len(asmSrc)
              /\ \A i \in 1 .. Len(asmSrc) : phase1.origin[i].lnum + 1 = i
        /\ phase1.stage = "done" /\ asmSrc = ExampleSource =>
              /\ phase1.transformed[1].opcode = "STORE"
              /\ phase1.transformed[1].offset = 4
              /\ phase1.transformed[3].opcode = "ADD"
              /\ phase1.transformed[3].offset = -2

\* the docstring example has been transformed
C4_Witness ==
    /\ asmSrc = ExampleSource
    /\ phase1.stage = "done"
    /\ Len(phase1.transformed) = 5
    /\ phase1.origin[3].address = 2

-----------------------------------------------------------------------------
(* C3: a label reference lowered by Phase 1 at address a, encoded by       *)
(* Phase 2, held by the memory at address a and executed there by step()   *)
(* with its predicate satisfied, acts on label_address itself: a lowered   *)
(* JUMP leaves pc = label_address, a lowered LOAD reads                    *)
(* memory[label_address], a lowered STORE writes memory[label_address].    *)

\* the lowered line of address a, when the memory at a holds its word
LoweredAt(pc_addr) ==
    {i \in 1 .. Len(phase1.transformed) :
        /\ phase1.origin[i].address = pc_addr
        /\ IsReference(asmSrc[phase1.origin[i].lnum + 1])
        /\ phase1.transformed[i].offset \in -512 .. 511
        /\ ~InstructionFromDictRaises(fill_defaults(phase1.transformed[i]))
        /\ pc_addr \in DOMAIN memory
        /\ memory[pc_addr] =
              Narrow(encode(instruction_from_dict(fill_defaults(phase1.transformed[i]))))}

\* a step() of the run that executed its instruction
SatisfiedStep ==
    /\ nSteps' = nSteps + 1
    /\ lastStep'.kind = "done"
    /\ lastStep'.satisfied
    /\ mode' = "running"

C3_EffectiveAddress ==
    [][SatisfiedStep =>
        \A i \in LoweredAt(registers[15]) :
            LET line == asmSrc[phase1.origin[i].lnum + 1]
                label_address == phase1.labels[line.labelref]
                target == NAMED_REGS[line.target]
            IN  /\ parse_line1(line) = "JUMP" => registers'[15] = label_address
                /\ line.opcode = "LOAD" =>
                      /\ label_address \in DOMAIN memory
                      /\ target # 0 => registers'[target] = memory[label_address]
                      /\ memory' = memory
                /\ line.opcode = "STORE" =>
                      /\ label_address \in DOMAIN memory
                      /\ memory'[label_address] = registers[target]
                      /\ \A x \in DOMAIN memory :
                            x # label_address => memory'[x] = memory[x]]_vars

\* the run has just taken a lowered JUMP backwards: the ADD at address a
\* with a negative displacement left pc at the label
C3_Witness ==
    /\ mode = "running"
    /\ lastStep.kind = "done"
    /\ lastStep.satisfied
    /\ lastEvent.instr.op = "ADD"
    /\ lastEvent.instr.reg_target = 15
    /\ lastEvent.instr.reg_src2 = 15
    /\ lastEvent.instr.offset < 0
    /\ \E i \in 1 .. Len(phase1.transformed) :
          /\ phase1.origin[i].address = lastEvent.pc_addr
          /\ parse_line1(asmSrc[phase1.origin[i].lnum + 1]) = "JUMP"
          /\ registers[15] = phase1.labels[asmSrc[phase1.origin[i].lnum + 1].labelref]

-----------------------------------------------------------------------------
(* Steps of transform's loop, by the line the step is about to process. *)

\* the line the loop of transform processes next
AtLine1 == asmSrc[phase1.lnum + 1]

TransformAt ==
    /\ phase1.stage = "loop"
    /\ phase1.lnum < Len(asmSrc)
    /\ phase1' # phase1

\* the error is counted, nothing is emitted and the loop goes on with the
\* next line (or exits when the count has passed the threshold)
ErrorLineHandled ==
    /\ phase1'.error_count = phase1.error_count + 1
    /\ phase1'.transformed = phase1.transformed
    /\ phase1'.lnum = phase1.lnum + 1
    /\ phase1'.stage = IF phase1'.error_count > ERROR_LIMIT_1 THEN "exit" ELSE "loop"

-----------------------------------------------------------------------------
(* C11: in transform a line that matches no pattern is caught, counted as  *)
(* one error and emits nothing, and the loop goes on with the next line,   *)
(* wherever the line stands in the source, the first line included.        *)
C11_SyntaxErrorCaught ==
    [][TransformAt /\ parse_line1(AtLine1) = "SyntaxError" => ErrorLineHandled]_vars

-----------------------------------------------------------------------------
(* C12: in transform a MEMOP or JUMP line that refers to a label absent    *)
(* from the label table is an error of that line only: the error count     *)
(* rises by one, nothing is emitted, the line consumes its address and     *)
(* the loop goes on with the next line.                                    *)
C12_UndefinedLabel ==
    [][TransformAt /\ IsReference(AtLine1) /\ AtLine1.labelref \notin DOMAIN phase1.labels
        => /\ ErrorLineHandled
           /\ phase1'.address = phase1.address + 1
           /\ phase1'.labels = phase1.labels]_vars

\* an undefined reference followed by two lines that were emitted, the
\* first of them at address 1
C12_Witness ==
    /\ phase1.stage = "done"
    /\ Len(asmSrc) = 3
    /\ IsReference(asmSrc[1])
    /\ asmSrc[1].labelref \notin DOMAIN phase1.labels
    /\ phase1.error_count = 1
    /\ Len(phase1.transformed) = 2
    /\ phase1.origin[1] = [lnum |-> 1, address |-> 1]
    /\ IsReference(asmSrc[2])

-----------------------------------------------------------------------------
(* C13: each phase aborts as soon as its own error count exceeds its       *)
(* threshold (phase 1: more than 10, phase 2: more than 15) and processes  *)
(* and emits nothing after the line that pushed the count over; with a     *)
(* count at or below the threshold the phase runs to the end of its input  *)
(* and returns its output.  The counters are independent and start at 0.   *)

\* a phase is in its loop, has returned or has exited: nothing else ends it
PhaseStages == {"off", "ready", "loop", "done", "exit"}

C13_State ==
    /\ phase1.stage \in PhaseStages
    /\ phase2.stage \in PhaseStages
    /\ phase1.stage = "exit" <=> phase1.error_count > 10
    /\ phase2.stage = "exit" <=> phase2.error_count > 15
    /\ phase1.stage = "done" => phase1.lnum = Len(asmSrc)
    /\ phase2.stage = "done" => phase2.lnum = Len(phase2.lines)
    /\ phase1.stage = "loop" /\ phase1.lnum = Len(asmSrc) => ENABLED TransformReturn
    /\ phase2.stage = "loop" /\ phase2.lnum = Len(phase2.lines) => ENABLED AssembleReturn
    /\ phase1.stage = "loop" /\ phase1.lnum < Len(asmSrc) => ENABLED TransformStep
    /\ phase2.stage = "loop" /\ phase2.lnum < Len(phase2.lines) => ENABLED AssembleStep

C13_Step ==
    /\ phase1.stage = "exit" => phase1' = phase1 /\ phase2' = phase2
    /\ phase2.stage = "exit" => phase2' = phase2
    /\ phase1.stage # "loop" /\ phase1'.stage = "loop" => phase1'.error_count = 0
    /\ phase2.stage # "loop" /\ phase2'.stage = "loop" => phase2'.error_count = 0
    /\ phase1'.error_count # phase1.error_count => phase2' = phase2
    /\ phase2'.error_count # phase2.error_count => phase1' = phase1
    /\ phase1'.stage = "exit" /\ phase1.stage # "exit" =>
          /\ phase1.error_count = 10
          /\ phase1'.lnum = phase1.lnum + 1
    /\ phase2'.stage = "exit" /\ phase2.stage # "exit" =>
          /\ phase2.error_count = 15
          /\ phase2'.lnum = phase2.lnum + 1

C13_Thresholds == [](C13_State) /\ [][C13_Step]_vars

-----------------------------------------------------------------------------
(* C14: a label defined on more than one line is mapped by resolve to the  *)
(* address of its last definition in source order, no error is counted     *)
(* for it, and every reference to it, before or after the definitions, is  *)
(* lowered against that last address.                                      *)

\* the labels of the source that are defined on more than one line
Redefined == {l \in DOMAIN phase1.labels : Cardinality(Definitions(asmSrc, l)) > 1}

C14_State ==
    Resolved =>
        /\ \A l \in Redefined :
              phase1.labels[l] = LineAddress(asmSrc, LastDefinition(asmSrc, l))
        /\ \A i \in 1 .. Len(phase1.transformed) :
              LET line == asmSrc[phase1.origin[i].lnum + 1]
              IN  IsReference(line) /\ line.labelref \in Redefined =>
                      phase1.transformed[i].offset + phase1.origin[i].address
                          = LineAddress(asmSrc, LastDefinition(asmSrc, line.labelref))

\* a line that defines such a label again, or refers to it, is no error
C14_Step ==
    /\ TransformAt
    /\ parse_line1(AtLine1) # "SyntaxError"
    /\ \/ AtLine1.label \in Redefined /\ ~IsReference(AtLine1)
       \/ IsReference(AtLine1) /\ AtLine1.labelref \in Redefined
    => phase1'.error_count = phase1.error_count

C14_LastWriterWins == [](C14_State) /\ [][C14_Step]_vars

\* x is defined at address 0 and again at address 2, and the JUMP x between
\* them was lowered with displacement 2 - 1
C14_Witness ==
    /\ phase1.stage = "done"
    /\ Len(asmSrc) = 3
    /\ Definitions(asmSrc, "x") = {1, 3}
    /\ parse_line1(asmSrc[2]) = "JUMP"
    /\ asmSrc[2].labelref = "x"
    /\ phase1.labels["x"] = 2
    /\ phase1.error_count = 0
    /\ phase1.transformed[2].offset = 1

-----------------------------------------------------------------------------
(* Steps of assemble's loop, by the line the step is about to process. *)

\* the line the loop of assemble processes next
AtLine2 == phase2.lines[phase2.lnum + 1]

AssembleAt ==
    /\ phase2.stage = "loop"
    /\ phase2.lnum < Len(phase2.lines)
    /\ phase2' # phase2

\* the step appended exactly the word w and counted no error
EmittedWord(w) ==
    /\ phase2'.instructions = Append(phase2.instructions, w)
    /\ phase2'.error_count = phase2.error_count

\* the step counted one error, appended nothing and went on to the next line
ErrorLineHandled2 ==
    /\ phase2'.error_count = phase2.error_count + 1
    /\ phase2'.instructions = phase2.instructions
    /\ phase2'.lnum = phase2.lnum + 1
    /\ phase2'.stage = IF phase2'.error_count > ERROR_LIMIT_2 THEN "exit" ELSE "loop"

\* the number a literal denotes: the sum of its digits times the powers of
\* its base
RECURSIVE PositionalValue(_, _, _)
PositionalValue(digits, base, k) ==
    IF k > Len(digits) THEN 0
    ELSE digits[k] * base ^ (Len(digits) - k) + PositionalValue(digits, base, k + 1)

LiteralValue(line) == PositionalValue(line.value, IF line.hex THEN 16 ELSE 10, 1)

\* the same number as a word; of a long hexadecimal literal the last four
\* digits are the low half and the digits before them the high half
LiteralWord(line) ==
    LET n == Len(line.value)
    IN  IF line.hex /\ n > 4
        THEN [hi |-> PositionalValue(SubSeq(line.value, 1, n - 4), 16, 1),
              lo |-> PositionalValue(SubSeq(line.value, n - 3, n), 16, 1)]
        ELSE Wide(LiteralValue(line))

-----------------------------------------------------------------------------
(* C15: in phase 2 a DATA line without a value emits the word 0 and counts *)
(* no error; a DATA line with a decimal or 0x-hex literal emits exactly    *)
(* the value of the literal.                                               *)
C15_DataWord ==
    [][AssembleAt /\ AtLine2.form = "data" =>
          IF AtLine2.hasValue THEN EmittedWord(LiteralWord(AtLine2))
          ELSE EmittedWord(Wide(0))]_vars

-----------------------------------------------------------------------------
(* C16: assemble returns exactly one word for every FULL or DATA line that *)
(* raised no error and none for a COMMENT line, in source order; when no   *)
(* line raised an error, word i is the word of the i-th non-COMMENT line   *)
(* (five words for the docstring example, its DATA 0 line giving 0).       *)

\* a FULL or DATA line that raises no error
EmitsWord(line) ==
    \/ parse_line2(line) = "FULL" /\ ~InstructionFromDictRaises(fill_defaults(line))
    \/ parse_line2(line) = "DATA" /\ line.hasValue

\* the word of such a line
WordOf(line) ==
    IF line.form = "data" THEN LiteralWord(line)
    ELSE encode(instruction_from_dict(fill_defaults(line)))

C16_OneWordPerLine ==
    phase2.stage \in {"loop", "done", "exit"} =>
        LET done == 1 .. phase2.lnum
            emitting == {k \in done : EmitsWord(phase2.lines[k])}
            nonComment == {k \in done : phase2.lines[k].form # "blank"}
        IN  /\ Len(phase2.instructions) = Cardinality(emitting)
            /\ \A k \in emitting :
                  phase2.instructions[Cardinality({j \in emitting : j <= k})]
                      = WordOf(phase2.lines[k])
            /\ phase2.error_count = 0 => emitting = nonComment
            /\ phase2.stage = "done" /\ asmSrc = ExampleSource /\ phase1.stage = "done" =>
                  /\ Len(phase2.instructions) = 5
                  /\ phase2.instructions[5] = Wide(0)

\* the docstring example has gone through both phases
C16_Witness ==
    /\ asmSrc = ExampleSource
    /\ phase1.stage = "done"
    /\ phase2.stage = "done"
    /\ phase2.error_count = 0
    /\ Len(phase2.instructions) = 5

-----------------------------------------------------------------------------
(* C17: phase 2 accepts the register aliases: a fully resolved instruction *)
(* written with zero for r0 or pc for r15 in any of its three register     *)
(* positions is assembled without error to the word of the same line       *)
(* written with r0 / r15.                                                  *)

Aliases == {"zero", "pc"}

\* the numbered name of a register
Numbered(r) == IF r = "zero" THEN "r0" ELSE IF r = "pc" THEN "r15" ELSE r

\* the line with every alias replaced by the numbered name
WithoutAliases(line) ==
    [line EXCEPT !.target = Numbered(@), !.src1 = Numbered(@), !.src2 = Numbered(@)]

\* an instruction in the fully resolved form whose registers are names of
\* NAMED_REGS, one of them at least an alias
WrittenWithAlias(line) ==
    /\ line.form = "instr3"
    /\ {line.target, line.src1, line.src2} \subseteq DOMAIN NAMED_REGS
    /\ {line.target, line.src1, line.src2} \cap Aliases # {}
    /\ EmitsWord(WithoutAliases(line))

C17_RegisterAliases ==
    [][AssembleAt /\ WrittenWithAlias(AtLine2)
        => EmittedWord(WordOf(WithoutAliases(AtLine2)))]_vars

-----------------------------------------------------------------------------
(* C18: in phase 2 a line of the FULL shape whose opcode is no declared    *)
(* OpCode (JUMP included), whose predicate has a letter outside M, Z, P, V *)
(* and is no flag name, or whose register index is above 15, is an error:  *)
(* the count rises by one, no word is emitted and assemble goes on with    *)
(* the next line.                                                          *)

DeclaredOpcodes == {"HALT", "LOAD", "STORE", "ADD", "SUB", "MUL", "DIV"}

\* the letters of a predicate, joined
RECURSIVE Joined(_, _)
Joined(letters, k) == IF k > Len(letters) THEN "" ELSE letters[k] \o Joined(letters, k + 1)

InvalidMnemonic(line) ==
    /\ parse_line2(line) = "FULL"
    /\ \/ line.opcode \notin DeclaredOpcodes
       \/ /\ \E k \in 1 .. Len(line.predicate) : line.predicate[k] \notin {"M", "Z", "P", "V"}
          /\ Joined(line.predicate, 1) \notin {"NEVER", "ALWAYS"}
       \/ {line.target, line.src1, line.src2} \cap {"r16"} # {}

C18_InvalidMnemonic ==
    [][AssembleAt /\ InvalidMnemonic(AtLine2) => ErrorLineHandled2]_vars

\* assemble has counted a JUMP written in the FULL shape and gone on to
\* emit the word of the line after it
C18_Witness ==
    /\ phase2.stage = "done"
    /\ Len(phase2.lines) = 2
    /\ phase2.lines[1].opcode = "JUMP"
    /\ parse_line2(phase2.lines[1]) = "FULL"
    /\ phase2.error_count = 1
    /\ Len(phase2.instructions) = 1

-----------------------------------------------------------------------------
(* C19: for every 32-bit word whose op field holds a declared OpCode,      *)
(* decode yields an Instruction whose reserved field is 0: a set bit 31 is *)
(* dropped, not rejected and not carried into the decoded instruction.     *)
C19_ReservedDropped ==
    /\ cStage = "encoded" /\ Extract(op_field, cWord) \in {0, 1, 2, 3, 5, 6, 7}
          => ENABLED Decode
    /\ cStage = "decoded" => cOut.reserved = 0

-----------------------------------------------------------------------------
(* C20: encode never rejects an offset: for an offset o outside the signed *)
(* range of the offset field encode succeeds, only the offset bits of the  *)
(* word depend on o, and decode(encode(instr)).offset is o wrapped into    *)
(* the range, ((o + 512) mod 1024) - 512; phase 2 assembles a bracketed    *)
(* offset of any size without counting an error.                           *)

Wrapped(o) == ((o + 512) % 1024) - 512

\* a fully resolved instruction with valid mnemonics and a bracketed offset
HasBracketedOffset(line) ==
    /\ line.form = "instr3"
    /\ line.hasOffset
    /\ EmitsWord(line)

C20_OffsetWraps ==
    [][AssembleAt /\ HasBracketedOffset(AtLine2) =>
          LET instr == instruction_from_dict(fill_defaults(AtLine2))
              word == phase2'.instructions[Len(phase2'.instructions)]
              out == decode(word)
          IN  /\ phase2'.error_count = phase2.error_count
              /\ Len(phase2'.instructions) = Len(phase2.instructions) + 1
              /\ phase2'.stage = "loop"
              /\ out.offset = Wrapped(AtLine2.offset)
              /\ Insert(offset_field, 0, word) = encode([instr EXCEPT !.offset = 0])
              /\ [out EXCEPT !.offset = 0] = [instr EXCEPT !.offset = 0]]_vars

\* LOAD r1,r0,r0[5000] has been assembled: the word decodes to offset -120
C20_Witness ==
    /\ phase2.stage = "done"
    /\ Len(phase2.lines) = 1
    /\ phase2.lines[1].offset = 5000
    /\ phase2.error_count = 0
    /\ Len(phase2.instructions) = 1
    /\ decode(phase2.instructions[1]).offset = -120
    /\ decode(phase2.instructions[1]).op = "LOAD"

-----------------------------------------------------------------------------
(* C6: run() returns only with halted true, and it returns iff a step of   *)
(* the run executed a HALT with a satisfied predicate; when the word at    *)
(* from_addr is HALT r0,r0,r0 the run takes exactly one step and returns   *)
(* with pc = from_addr + 1.                                                *)
HaltWord == I("HALT", ALWAYS, 0, 0, 0, 0)

C6_RunReturnsIffHalt ==
    /\ [](/\ mode = "returned" => halted /\ runInfo.halts = 1
          /\ mode = "running" => (halted <=> runInfo.halts >= 1)
          /\ mode = "running" /\ runInfo.halts >= 1 => ENABLED RunReturn /\ ~ENABLED RunStep
          /\ mode = "running" /\ runInfo.halts = 0 => ~ENABLED RunReturn)
    /\ [][mode = "running" /\ mode' = "returned" =>
            /\ halted'
            /\ runInfo.halts = 1
            /\ runInfo.word = HaltWord =>
                  runInfo.steps = 1 /\ registers'[15] = runInfo.from_addr + 1]_vars

C6_Witness ==
    /\ mode = "returned"
    /\ runInfo.word = HaltWord
    /\ runInfo.from_addr = 0
    /\ nSteps = 1
    /\ halted
    /\ registers[15] = 1

-----------------------------------------------------------------------------
(* C7: register 0 reads 0 in every reachable CPU state, also after         *)
(* satisfied arithmetic and LOAD instructions whose target is r0.          *)
C7_RegisterZero == RegGet(registers, 0) = 0

C7_Witness ==
    /\ lastStep.kind = "done"
    /\ lastStep.satisfied
    /\ lastEvent.instr.op = "ADD"
    /\ lastEvent.instr.reg_target = 0
    /\ lastEvent.instr.offset = 5
    /\ condition = P
    /\ RegGet(registers, 0) = 0

-----------------------------------------------------------------------------
(* C8: the predicate is satisfied iff (condition & instr.cond) is not      *)
(* NEVER; a step whose predicate is not satisfied changes pc to pc + 1 and *)
(* nothing else: r0..r14, the condition flag, halted and memory keep       *)
(* their values.                                                           *)
StepDone == nSteps' = nSteps + 1 /\ lastStep'.kind = "done"

C8_UnsatisfiedOnlyPc ==
    [][StepDone =>
        /\ lastStep'.satisfied <=> CondAnd(condition, lastEvent'.instr.cond) # NEVER
        /\ ~lastStep'.satisfied =>
              /\ registers' = [registers EXCEPT ![15] = @ + 1]
              /\ condition' = condition
              /\ halted' = halted
              /\ memory' = memory]_vars

C8_Witness ==
    /\ lastStep.kind = "done"
    /\ ~lastStep.satisfied
    /\ lastEvent.instr.op = "STORE"
    /\ condition = P
    /\ lastEvent.instr.cond = M

-----------------------------------------------------------------------------
(* C9 as stated: once halted is true no later step() changes pc, a         *)
(* register, the condition flag or memory, and halted is left only by a    *)
(* new run(from_addr).                                                     *)
RunStarted == mode # "running" /\ mode' = "running"

C9_HaltedTerminal ==
    [][halted =>
        \/ halted' /\ UNCHANGED <<registers, condition, memory>>
        \/ RunStarted]_vars

(* C9 as amended: run() calls step() no more once halted is true, and      *)
(* halted is cleared only by a new run(from_addr), which sets pc to        *)
(* from_addr; step() itself does not test halted.                          *)
C9_RunStopsAtHalt ==
    [][/\ halted /\ ~halted' =>
            RunStarted /\ registers'[15] = runInfo'.from_addr
       /\ halted /\ mode = "running" =>
            mode' = "returned" /\ UNCHANGED <<registers, condition, halted, memory, nSteps>>]_vars

C9_Witness ==
    /\ mode = "returned"
    /\ halted
    /\ lastStep.kind = "done"
    /\ registers[15] = runInfo.from_addr + 2

-----------------------------------------------------------------------------
(* C10: every step() publishes exactly one CPUStep event, which carries    *)
(* the pre-increment pc, the fetched word and its decoded instruction, and *)
(* is delivered while pc, registers, flag, halted and memory still have    *)
(* their values from before the step.                                      *)
(* The code: a step whose decode raises (C2) returns before notify_all.    *)
C10_EveryStepPublishes ==
    [][nSteps' = nSteps + 1 /\ lastStep'.kind # "memfault" =>
        /\ nEvents' = nEvents + 1
        /\ lastEvent'.pc_addr = registers[15]
        /\ lastEvent'.instr_word = memory[registers[15]]
        /\ lastEvent'.seen = Cpu]_vars

-----------------------------------------------------------------------------
(* C21: the offset of an instruction word is a signed value in the range   *)
(* -2^11 .. 2^11 - 1: for every offset in that range, 2047 and -2048       *)
(* included, decode(encode(instr)).offset equals instr.offset.             *)
C21_DocumentedOffsetRange ==
    cStage = "decoded" /\ cInstr.offset \in DocOffsetMin .. DocOffsetMax =>
        cOut.offset = cInstr.offset

-----------------------------------------------------------------------------
(* C22: ALU.exec(op, a, b) returns, for b nonzero when op is DIV, the      *)
(* result of the table operation (ADD a+b, SUB a-b, MUL a*b, DIV the       *)
(* quotient rounded toward negative infinity, LOAD and STORE a+b, HALT 0)  *)
(* and the flag that the result alone determines: Z when it is 0, M when   *)
(* it is negative, P when it is positive, for every opcode.                *)

\* q is the quotient of a by b rounded toward negative infinity
IsFloorQuotient(q, a, b) ==
    IF b > 0 THEN b * q <= a /\ a < b * (q + 1)
    ELSE b * q >= a /\ a > b * (q + 1)

TableResult(result, op, a, b) ==
    CASE op \in {"ADD", "LOAD", "STORE"} -> result = a + b
      [] op = "SUB" -> result = a - b
      [] op = "MUL" -> result = a * b
      [] op = "DIV" -> IsFloorQuotient(result, a, b)
      [] op = "HALT" -> result = 0

FlagOfResult(result) == IF result = 0 THEN Z ELSE IF result < 0 THEN M ELSE P

ExecReturned == call.stage = "returned" /\ call.fn = "exec"

C22_AluTable ==
    ExecReturned /\ ~(call.op = "DIV" /\ call.y = 0) =>
        /\ TableResult(call.out.result, call.op, call.x, call.y)
        /\ call.out.flag = FlagOfResult(call.out.result)

C22_Witness ==
    /\ ExecReturned
    /\ call.op = "DIV" /\ call.x = 0 - 5 /\ call.y = 2
    /\ call.out.result = 0 - 3 /\ call.out.flag = M

-----------------------------------------------------------------------------
(* C23: a division by zero raises nothing: a satisfied DIV step whose      *)
(* second operand is 0 writes 0 to the target register, sets the condition *)
(* flag to V and advances pc normally; and the flag becomes V in no other  *)
(* step.                                                                   *)

DivByZeroStep ==
    /\ nSteps' = nSteps + 1
    /\ lastStep'.kind = "done"
    /\ lastStep'.satisfied
    /\ lastEvent'.instr.op = "DIV"
    /\ lastEvent'.instr.offset + registers[lastEvent'.instr.reg_src2] = 0

C23_DivByZero ==
    [][/\ DivByZeroStep =>
            /\ registers'[lastEvent'.instr.reg_target] = 0
            /\ condition' = V
            /\ lastEvent'.instr.reg_target # 15 => registers'[15] = registers[15] + 1
            /\ mode' = mode
       /\ condition' = V /\ condition # V => DivByZeroStep]_vars

C23_Witness ==
    /\ lastStep.kind = "done" /\ lastStep.satisfied
    /\ lastEvent.instr.op = "DIV" /\ lastEvent.instr.reg_target = 2
    /\ condition = V
    /\ registers[2] = 0
    /\ registers[15] = lastEvent.pc_addr + 1

-----------------------------------------------------------------------------
(* C24: the text of a CondFlag is NEVER for 0, ALWAYS for M|Z|P|V, the     *)
(* letter of a single flag, and otherwise the letters of the set bits in   *)
(* the order M, Z, P, V, whatever the order in which the flags were        *)
(* combined; union and intersection of CondFlags are the bitwise OR and    *)
(* AND of their 4-bit values.                                              *)

\* the sixteen texts, for the values 0 .. 15
FlagText ==
    << "NEVER", "M", "Z", "MZ", "P", "MP", "ZP", "MZP",
       "V", "MV", "ZV", "MZV", "PV", "MPV", "ZPV", "ALWAYS" >>

IsBitwiseOr(r, x, y) ==
    r \in 0 .. 15 /\ \A k \in 0 .. 3 : Bit(r, k) = 1 <=> (Bit(x, k) = 1 \/ Bit(y, k) = 1)

IsBitwiseAnd(r, x, y) ==
    r \in 0 .. 15 /\ \A k \in 0 .. 3 : Bit(r, k) = 1 <=> (Bit(x, k) = 1 /\ Bit(y, k) = 1)

C24_FlagText ==
    call.stage = "returned" =>
        /\ call.fn = "str" =>
              /\ IsBitwiseOr(call.out.flag, call.x, call.y)
              /\ call.out.text = FlagText[call.out.flag + 1]
        /\ call.fn = "or" => IsBitwiseOr(call.out.flag, call.x, call.y)
        /\ call.fn = "and" => IsBitwiseAnd(call.out.flag, call.x, call.y)

C24_Witness ==
    /\ call.stage = "returned" /\ call.fn = "str"
    /\ call.x = P /\ call.y = M
    /\ call.out.text = "MP"

-----------------------------------------------------------------------------
(* C25: run as a process, phase 1 (main) on a source whose error count     *)
(* stays at or below the threshold writes every line that transform        *)
(* produced to the object file, in order, and exits with status zero;      *)
(* phase 2 (main) does the same with its words, one decimal integer per    *)
(* line.                                                                   *)

Main1Correct ==
    proc.main = 1 /\ proc.stage = "exited" /\ phase1.error_count <= ERROR_LIMIT_1 =>
        /\ proc.status = 0
        /\ proc.objfile = phase1.transformed

Main2Correct ==
    proc.main = 2 /\ proc.stage = "exited" /\ phase2.error_count <= ERROR_LIMIT_2 =>
        /\ proc.status = 0
        /\ Len(proc.objfile) = Len(phase2.instructions)
        /\ \A i \in 1 .. Len(proc.objfile) :
              /\ \A k \in 1 .. Len(proc.objfile[i]) : proc.objfile[i][k] \in 0 .. 9
              /\ DigitsValue(WZero, proc.objfile[i], 10, 1) = phase2.instructions[i]

C25_MainWritesObjectFile == Main1Correct /\ Main2Correct

-----------------------------------------------------------------------------
(* C26 as stated: transform passes every FULL line and every DATA line     *)
(* through to its output verbatim, whatever labels the line defines, and   *)
(* keeps the lines of the output in source order; only MEMOP and JUMP      *)
(* lines are rewritten.                                                    *)

\* the source line that output line i was produced from
SourceOf(i) == asmSrc[phase1.origin[i].lnum + 1]

\* every FULL or DATA line the loop has passed has one line of the output,
\* and the output follows the order of the source
PassedInOrder ==
    /\ \A k \in 1 .. phase1.lnum :
          parse_line1(asmSrc[k]) \in {"FULL", "DATA"} =>
              \E i \in 1 .. Len(phase1.transformed) : phase1.origin[i].lnum + 1 = k
    /\ \A i, j \in 1 .. Len(phase1.transformed) :
          i < j => phase1.origin[i].lnum < phase1.origin[j].lnum

-----------------------------------------------------------------------------
-----------------------------------------------------------------------------
(* Satisfied steps that return, seen from outside: the instruction of the  *)
(* step, the address it was fetched from and the operands as the registers *)
(* held them before the step.                                              *)

SatisfiedReturns == StepDone /\ lastStep'.satisfied /\ mode' = mode

StepInstr == lastEvent'.instr

Operand1 == registers[StepInstr.reg_src1]

Operand2 == StepInstr.offset + registers[StepInstr.reg_src2]

Arithmetic == {"ADD", "SUB", "MUL", "DIV"}

\* the result of an arithmetic operation that does not fault
ArithResult(op, a, b) ==
    CASE op = "ADD" -> a + b
      [] op = "SUB" -> a - b
      [] op = "MUL" -> a * b
      [] op = "DIV" -> CHOOSE q \in (0 - Abs(a)) - 1 .. Abs(a) + 1 : IsFloorQuotient(q, a, b)

\* what an arithmetic step leaves in the target and in the condition flag
StepResult == IF StepInstr.op = "DIV" /\ Operand2 = 0 THEN 0
              ELSE ArithResult(StepInstr.op, Operand1, Operand2)

StepFlag == IF StepInstr.op = "DIV" /\ Operand2 = 0 THEN V ELSE FlagOfResult(StepResult)

-----------------------------------------------------------------------------
(* C28: in a satisfied step at address a both operands are read before pc  *)
(* is advanced and the effect of the opcode is applied after it: operand2  *)
(* of an instruction with src2 = r15 is offset + a, a STORE whose target   *)
(* is r15 writes a + 1 to memory, and an arithmetic instruction or a LOAD  *)
(* whose target is r15 leaves pc equal to the result or the loaded value.  *)
C28_OperandsThenIncrementThenEffect ==
    [][SatisfiedReturns =>
        LET a == registers[15]
            target == StepInstr.reg_target
        IN  /\ StepInstr.op \in Arithmetic /\ target # 0 => registers'[target] = StepResult
            /\ StepInstr.op = "LOAD" /\ target # 0 =>
                  registers'[target] = memory[Operand1 + Operand2]
            /\ StepInstr.op = "STORE" =>
                  memory'[Operand1 + Operand2] =
                      IF target = 15 THEN a + 1 ELSE registers[target]
            /\ StepInstr.op \in {"STORE", "HALT"} \/ target # 15 =>
                  registers'[15] = a + 1]_vars

\* STORE r15,r0,r15[1] fetched from address a has written a + 1 to cell a + 1
C28_Witness ==
    /\ lastStep.kind = "done" /\ lastStep.satisfied /\ mode # "memfault"
    /\ lastEvent.instr.op = "STORE" /\ lastEvent.instr.reg_target = 15
    /\ lastEvent.instr.reg_src2 = 15
    /\ registers[15] = lastEvent.pc_addr + 1
    /\ memory[lastEvent.pc_addr + 1] = lastEvent.pc_addr + 1

-----------------------------------------------------------------------------
(* C29: the condition flag changes only in a satisfied ADD, SUB, MUL or    *)
(* DIV step, where it becomes the ALU flag of the result also when the     *)
(* target is r0 or r15 (a taken lowered JUMP sets it to Z when the label   *)
(* is at address 0 and to P when it is at a higher address); satisfied     *)
(* LOAD, STORE and HALT steps leave the flag alone; and each satisfied     *)
(* step does exactly one of: one memory write (STORE), one register write  *)
(* (LOAD, arithmetic), setting halted (HALT).                              *)

OnlyPcAdvanced == registers' = [registers EXCEPT ![15] = @ + 1]

OneCellWritten ==
    /\ DOMAIN memory' = DOMAIN memory
    /\ \A i \in DOMAIN memory : i # Operand1 + Operand2 => memory'[i] = memory[i]

OneRegisterWritten ==
    \A i \in RegIdx \ {StepInstr.reg_target} :
        registers'[i] = IF i = 15 THEN registers[15] + 1 ELSE registers[i]

C29_FlagAndFrame ==
    [][StepDone /\ mode' = mode =>
        /\ condition' # condition => lastStep'.satisfied /\ StepInstr.op \in Arithmetic
        /\ lastStep'.satisfied =>
              /\ StepInstr.op \in Arithmetic =>
                    /\ condition' = StepFlag
                    /\ memory' = memory /\ halted' = halted /\ OneRegisterWritten
              /\ StepInstr.op = "ADD" /\ StepInstr.reg_target = 15 /\ registers'[15] >= 0 =>
                    condition' = IF registers'[15] = 0 THEN Z ELSE P
              /\ StepInstr.op = "LOAD" =>
                    /\ condition' = condition
                    /\ memory' = memory /\ halted' = halted /\ OneRegisterWritten
              /\ StepInstr.op = "STORE" =>
                    /\ condition' = condition
                    /\ OneCellWritten /\ halted' = halted /\ OnlyPcAdvanced
              /\ StepInstr.op = "HALT" =>
                    /\ condition' = condition
                    /\ memory' = memory /\ halted' /\ OnlyPcAdvanced]_vars

\* ADD/P r15,r0,r15[-1] fetched from address 1 has been taken: pc is 0 and
\* the flag, P before the step, is Z
C29_Witness ==
    /\ lastStep.kind = "done" /\ lastStep.satisfied
    /\ lastEvent.instr.op = "ADD" /\ lastEvent.instr.reg_target = 15
    /\ lastEvent.instr.reg_src2 = 15
    /\ lastEvent.pc_addr = 1
    /\ lastEvent.seen.condition = P
    /\ registers[15] = 0
    /\ condition = Z

-----------------------------------------------------------------------------
(* C30: every word phase 2 emits is a 32-bit unsigned integer,             *)
(* 0 <= word <= 2^32 - 1: a FULL line always encodes to a word with bit 31 *)
(* clear, and a DATA literal of any accepted size is emitted as a value in *)
(* that range.                                                             *)

WordIn32Bits(w) == w.hi \in 0 .. Half - 1 /\ w.lo \in 0 .. Half - 1

C30_State == \A i \in 1 .. Len(phase2.instructions) : WordIn32Bits(phase2.instructions[i])

C30_Step ==
    AssembleAt /\ parse_line2(AtLine2) = "FULL"
    /\ Len(phase2'.instructions) = Len(phase2.instructions) + 1 =>
        LET word == phase2'.instructions[Len(phase2'.instructions)]
        IN  WordIn32Bits(word) /\ word.hi < Half \div 2

C30_WordsIn32Bits == [](C30_State) /\ [][C30_Step]_vars

-----------------------------------------------------------------------------
(* C31: Pass A and Pass B of phase 1 agree on addresses: for every source, *)
(* also one with syntax-error or undefined-label lines, the address that   *)
(* transform uses when it lowers a MEMOP or JUMP line is the address that  *)
(* resolve gave that line, so the displacement it emits is the address of  *)
(* the label minus the line's Pass-A address.                              *)
C31_PassesAgree ==
    [][TransformAt /\ IsReference(AtLine1) /\ AtLine1.labelref \in DOMAIN phase1.labels =>
        LET passA == AddressAt(asmSrc, phase1.lnum + 1)
            out == phase1'.transformed[Len(phase1'.transformed)]
        IN  /\ phase1.address = passA
            /\ Len(phase1'.transformed) = Len(phase1.transformed) + 1
            /\ out.offset = phase1.labels[AtLine1.labelref] - passA]_vars

-----------------------------------------------------------------------------
(* C32: the two phases agree on addresses: for every source on which       *)
(* phase 1 reports no error, phase 2 applied to the output of phase 1      *)
(* emits as many words as Pass A assigned addresses, and the word at index *)
(* k is the word of the line to which Pass A gave address k (0 for a DATA  *)
(* line without a value), so every label denotes the index of its word.    *)

\* the lines of the source to which Pass A gives an address
Addressed == {k \in 1 .. Len(asmSrc) : IsNonComment(asmSrc[k])}

\* both phases have run, phase 2 on what phase 1 returned, and phase 1
\* counted no error
BothPhasesDone ==
    /\ phase1.stage = "done" /\ phase1.error_count = 0
    /\ phase2.stage = "done" /\ phase2.lines = phase1.transformed

C32_PhasesAgree ==
    BothPhasesDone =>
        /\ Len(phase2.instructions) = Cardinality(Addressed)
        /\ \A k \in Addressed :
              phase2.instructions[LineAddress(asmSrc, k) + 1] = WordOf(phase1.transformed[k])

-----------------------------------------------------------------------------
(* C33 as stated: every line in the output of transform is classified by   *)
(* the grammar of phase 2 as FULL, DATA or COMMENT (no MEMOP or JUMP form  *)
(* and no syntax error remains, also when the line carried a label, a      *)
(* predicate or a comment), and transform is idempotent on its own output: *)
(* transform(transform(src)) = transform(src).                             *)

OutputLowered ==
    phase1.stage \in {"loop", "done", "exit"} =>
        \A i \in 1 .. Len(phase1.transformed) :
            parse_line2(phase1.transformed[i]) \in {"FULL", "DATA", "COMMENT"}

\* transform has returned from a run on the lines the earlier run returned
OnOwnOutput == earlier.made /\ asmSrc = earlier.transformed /\ phase1.stage = "done"

-----------------------------------------------------------------------------
(* C34: in every reachable CPU state the condition flag is ALWAYS (only    *)
(* before the first satisfied arithmetic step) or exactly one of M, Z, P,  *)
(* V, and never NEVER; so an instruction predicated ALWAYS is executed in  *)
(* every state and an instruction predicated NEVER in none.                *)

C34_State == condition \in {ALWAYS, M, Z, P, V}

C34_Step ==
    /\ condition' = ALWAYS => condition = ALWAYS
    /\ StepDone =>
          /\ StepInstr.cond = ALWAYS => lastStep'.satisfied
          /\ StepInstr.cond = NEVER => ~lastStep'.satisfied
          /\ lastStep'.satisfied /\ StepInstr.op \in Arithmetic => condition' \in {M, Z, P, V}

C34_FlagValues == [](C34_State) /\ [][C34_Step]_vars

\* after an arithmetic step has set P, a word predicated NEVER was fetched
\* and skipped
C34_Witness ==
    /\ lastStep.kind = "done" /\ ~lastStep.satisfied
    /\ lastEvent.instr.cond = NEVER
    /\ lastEvent.seen.condition = P
    /\ condition = P
    /\ registers[15] = lastEvent.pc_addr + 1

-----------------------------------------------------------------------------
(* C35: run(from_addr) resets only pc (to from_addr) and halted (to false) *)
(* before its first step: r1..r14, the condition flag and memory keep the  *)
(* values the previous run left, so a second run of a program on the same  *)
(* CPU starts from the final registers and flag of the first run.          *)
C35_RunResetsPcAndHalted ==
    [][RunStarted =>
        /\ ~halted'
        /\ registers'[15] = runInfo'.from_addr
        /\ \A i \in RegIdx \ {15} : registers'[i] = registers[i]
        /\ condition' = condition
        /\ memory' = memory]_vars

\* SUB r1,r0,r0[1] and HALT have run from address 0, and run(0) has been
\* called again: r1 is still -1 and the flag still M
C35_Witness ==
    /\ mode = "running" /\ runInfo.steps = 0 /\ runInfo.from_addr = 0
    /\ nSteps = 2
    /\ lastEvent.instr.op = "HALT"
    /\ ~halted
    /\ registers[15] = 0
    /\ registers[1] = 0 - 1
    /\ condition = M

====
